---- MODULE Spec2Model ----
(***************************************************************************)
(* State-machine models of the 3d-genome-cycle simulation programs:        *)
(*   - contact_map            (stage_interphase/contact_map.cpp)           *)
(*   - the stage drivers      (anatelophase, interphase, prometaphase)     *)
(*   - the stage transitions  (transition interphase/prometaphase/cycle)   *)
(* Each part has its own specification over its own variables; the         *)
(* variables of the other parts stay at their initial values.              *)
(***************************************************************************)
EXTENDS Integers, Sequences, FiniteSets, TLC

(***************************************************************************)
(* Bounds of the model.                                                    *)
(***************************************************************************)
NumParticles == 3       \* particles handed to contact_map::update
MaxCoord == 1           \* particles sit on the lattice points 0..MaxCoord of a line
MaxUpdates == 2         \* update() calls between two clear() calls

VARIABLES
    _contact_distance,   \* contact_map::_contact_distance
    _contacts,           \* contact_map::_contacts: contact_pair -> count
    ret,                \* value returned by the last call
    lastOp,             \* name of the last member function called
    nupdates,           \* update() calls since construction or the last clear()
    searched,           \* cutoff and reported pairs of the neighbor search of the last
                        \* call, when that call was update()
    first               \* the points and the resulting map of the first update() since
                        \* clear(), kept while every later update() repeats it with the
                        \* same points and contact distance

cmVars == <<_contact_distance, _contacts, ret, lastOp, nupdates, searched, first>>

VARIABLES
    driver,             \* which stage driver program runs
    _config,            \* simulation_driver::_config (the fields the run functions read)
    pc,                 \* the function of the driver that executes next
    _store,             \* simulation_driver::_store: the stage it addresses and the file content
    _system,            \* simulation_driver::_system: positions and attached force fields
    _random,            \* draws taken from simulation_driver::_random so far, in order
    _context,           \* simulation_driver::_context
    _contact_map,       \* simulation_driver::_contact_map (interphase), by its updates
    run_stage,          \* the stage whose integration run is in progress or was last
    step,               \* step counter of the integration run
    calls,              \* per stage, the step indices the callback was invoked with
    ffsteps,            \* per integration step executed: stage and attached force fields
    loaded,             \* size of the initial structure read from the store, -1 if none read
    input,              \* the store as it was handed to the driver
    error,              \* what() of the exception that ended the run, "" if none
    clog,               \* the progress lines written to std::clog, by stage and step
    quiet,              \* the same run with the logging statements taken out: its
                        \* context and contact map, and the store after the last
                        \* callback next to the store of the run itself
    passed              \* the states the file went through in the last callback: the
                        \* store after each call the callback made on it, in order

drVars == <<driver, _config, pc, _store, _system, _random, _context, _contact_map,
            run_stage, step, calls, ffsteps, loaded, input, error, clog, quiet, passed>>

VARIABLES
    mode,               \* program_mode of the transition program
    tpc,                \* position of the transition program: in main, in its handler, exited
    stores,             \* the simulation_store objects: the target file and, for the
                        \* cycle mode, the source file
    reads,              \* positions datasets read so far, as <<file, stage, key>>
    status,             \* how the program ended: 0, 1, or "signal" when it was killed
    stderr,             \* the error line written to std::cerr, "" if none
    handed              \* the stores as they were handed to the program

trVars == <<mode, tpc, stores, reads, status, stderr, handed>>

VARIABLES
    ctor,               \* the driver whose constructor runs
    cpc,                \* position in the constructor: member initialisers, setup(), done
    metadata,           \* the design datasets of the file, by their row counts
    settings,           \* the configuration values the constructor reads
    design,             \* simulation_driver::_design once loaded
    built,              \* particles and force fields created, kinetochore specs registered
    thrown,             \* type of the exception that left the constructor, "" if none
    springs             \* spring potentials made from the registered kinetochore specs

ctVars == <<ctor, cpc, metadata, settings, design, built, thrown, springs>>

VARIABLES
    scalar,             \* the value handed to quantize, as m * 2^e with m odd or zero
    width,              \* the number of mantissa bits to keep
    qpc,                \* how often quantize has been applied: "input", "once", "twice"
    quantized,          \* quantize(scalar, width)
    requantized         \* quantize(quantized, width)

qzVars == <<scalar, width, qpc, quantized, requantized>>

VARIABLES
    _chains,            \* init_pipeline::_chains, the chain definitions given to prepare
    _prepare_config,    \* the configuration values init_pipeline reads
    ppc,                \* position in init_pipeline::run
    _interphase,        \* init_pipeline::_interphase
    _anatelophase,      \* init_pipeline::_anatelophase
    _prometaphase       \* init_pipeline::_prometaphase

ppVars == <<_chains, _prepare_config, ppc, _interphase, _anatelophase, _prometaphase>>

VARIABLES
    _kinetochores,      \* kinetochore_fiber_forcefield::_kinetochores
    _pole_position,     \* kinetochore_fiber_forcefield::_pole_position, on the axis
    system_positions,   \* system.view_positions(), on the axis through the pole
    forces,             \* the force buffer handed to compute_force
    given_forces,       \* the buffer as the other force fields left it
    fpc                 \* "setup" while kinetochores are registered, then "computed"

fcVars == <<_kinetochores, _pole_position, system_positions, forces, given_forces, fpc>>

VARIABLES
    fiber_spec,         \* the one kinetochore_spec registered with the field
    fiber_pole,         \* kinetochore_fiber_forcefield::_pole_position, on the axis
    fiber_particle,     \* the particle: its position on the axis and its mobility
    fiber_timestep,     \* the integrator's timestep, a fraction num / den
    fiber_step          \* integration steps done, -1 while nothing is set up

fbVars == <<fiber_spec, fiber_pole, fiber_particle, fiber_timestep, fiber_step>>

VARIABLES
    structure_mode,     \* the transition run on the prepared file, "none" before
    structure_config,   \* config.mitotic_phase as the transition loads it
    prev_structure,     \* the positions load_positions returned
    next_structure,     \* the positions vector the transition fills and saves
    structure_writes,   \* the indexes of that vector assigned to, in program order
    structure_pc        \* "idle", "ready" once the designs are in the file, "saved", "killed"

stVars == <<structure_mode, structure_config, prev_structure, next_structure, structure_writes, structure_pc>>

vars == <<cmVars, drVars, trVars, ctVars, qzVars, ppVars, fcVars, fbVars, stVars>>

\* The variables outside each part
cmRest == <<drVars, trVars, ctVars, qzVars, ppVars, fcVars, fbVars, stVars>>
drRest == <<cmVars, trVars, ctVars, qzVars, ppVars, fcVars, fbVars, stVars>>
trRest == <<cmVars, drVars, ctVars, qzVars, ppVars, fcVars, fbVars, stVars>>
ctRest == <<cmVars, drVars, trVars, qzVars, ppVars, fcVars, fbVars, stVars>>
qzRest == <<cmVars, drVars, trVars, ctVars, ppVars, fcVars, fbVars, stVars>>
ppRest == <<cmVars, drVars, trVars, ctVars, qzVars, fcVars, fbVars, stVars>>
fcRest == <<cmVars, drVars, trVars, ctVars, qzVars, ppVars, fbVars, stVars>>
fbRest == <<cmVars, drVars, trVars, ctVars, qzVars, ppVars, fcVars, stVars>>
stRest == <<cmVars, drVars, trVars, ctVars, qzVars, ppVars, fcVars, fbVars>>

\* No driver program runs: the driver variables of a specification that has none.
DriverIdle ==
    /\ driver = "none"
    /\ _config = [steps |-> 0]
    /\ pc = "idle"
    /\ _store = [_stage |-> "unknown"]
    /\ _system = [forcefields |-> {}]
    /\ _random = <<>>
    /\ _context = [time |-> 0]
    /\ _contact_map = [updates |-> {}]
    /\ run_stage = "none"
    /\ step = 0
    /\ calls = <<>>
    /\ ffsteps = {}
    /\ loaded = -1
    /\ input = [_stage |-> "unknown"]
    /\ error = ""
    /\ clog = <<>>
    /\ quiet = [context |-> [time |-> 0]]
    /\ passed = <<>>

\* No transition program runs.
TransitionIdle ==
    /\ mode = "none"
    /\ tpc = "idle"
    /\ stores = [target |-> [_stage |-> "unknown"]]
    /\ reads = {}
    /\ status = [code |-> 0]
    /\ stderr = ""
    /\ handed = [target |-> [_stage |-> "unknown"]]

\* No constructor runs.
ConstructIdle ==
    /\ ctor = "none"
    /\ cpc = "idle"
    /\ metadata = [chain_ranges |-> 0]
    /\ settings = [core_mobility |-> 0]
    /\ design = [chains |-> <<>>]
    /\ built = [particles |-> 0]
    /\ thrown = ""
    /\ springs = {}

\* No value is being quantized.
QuantizeIdle ==
    /\ scalar = [m |-> 0, e |-> 0]
    /\ width = 0
    /\ qpc = "idle"
    /\ quantized = [m |-> 0, e |-> 0]
    /\ requantized = [m |-> 0, e |-> 0]

\* No preparation pipeline runs.
PrepareIdle ==
    /\ _chains = <<>>
    /\ _prepare_config = [coarse_graining |-> 1]
    /\ ppc = "idle"
    /\ _interphase = [particles |-> <<>>]
    /\ _anatelophase = [particles |-> <<>>]
    /\ _prometaphase = [particles |-> <<>>]

\* No kinetochore fiber field is evaluated.
ForceIdle ==
    /\ _kinetochores = <<>>
    /\ _pole_position = 0
    /\ system_positions = <<>>
    /\ forces = <<>>
    /\ given_forces = <<>>
    /\ fpc = "idle"

\* No particle is integrated under a kinetochore fiber field.
FiberIdle ==
    /\ fiber_spec = <<>>
    /\ fiber_pole = 0
    /\ fiber_particle = <<>>
    /\ fiber_timestep = <<>>
    /\ fiber_step = -1

\* No transition works on a structure.
StructureIdle ==
    /\ structure_mode = "none"
    /\ structure_config = <<>>
    /\ prev_structure = <<>>
    /\ next_structure = <<>>
    /\ structure_writes = <<>>
    /\ structure_pc = "idle"

(***************************************************************************)
(* Helpers on sequences and functions.                                     *)
(***************************************************************************)
Abs(x) == IF x < 0 THEN -x ELSE x

EmptyMap == [p \in {} |-> 0]

\* What a call returns: nothing, a scalar or a list of triples.
Void == [void |-> TRUE]

NoSearch == [dist |-> 0, pairs |-> {}]

NoFirst == [valid |-> FALSE, pts |-> <<>>, map |-> EmptyMap]

Reverse(s) == [k \in 1..Len(s) |-> s[Len(s) + 1 - k]]

(***************************************************************************)
(* contact_pair and its 64-bit encoding.  A 64-bit unsigned value is kept  *)
(* as its two 32-bit words <<high, low>>; unsigned comparison of two       *)
(* values compares the high words first.                                   *)
(***************************************************************************)
Particles == 0..(NumParticles - 1)
Coords == 0..MaxCoord
PointSets == [Particles -> Coords]
Distances == 0..MaxCoord

AllPairs == Particles \X Particles

contact_pair(i, j) == <<i, j>>

encode_ij(i, j) == <<i, j>>     \* (uint64(i) << 32) | j

Less64(a, b) == a[1] < b[1] \/ (a[1] = b[1] /\ a[2] < b[2])

\* Mutant: the comparison looks at the high word only.
compare_ij_HighWordOnly(a, b) == a[1] < b[1]

compare_ij(a, b) == Less64(encode_ij(a[1], a[2]), encode_ij(b[1], b[2]))

(***************************************************************************)
(* md::neighbor_searcher<md::open_box>: enumerates every unordered pair    *)
(* whose separation is within the cutoff once, as (i, j) with i < j, in no *)
(* guaranteed order.                                                       *)
(***************************************************************************)
ClosePairs(pts, dist) ==
    {<<i, j>> \in AllPairs :
        i < j /\ Abs(pts[i] - pts[j]) <= dist}

RECURSIVE Ascending(_)
Ascending(S) ==
    IF S = {} THEN <<>>
    ELSE LET m == CHOOSE x \in S : \A y \in S \ {x} : Less64(x, y)
         IN  <<m>> \o Ascending(S \ {m})

\* Every order in which a set of keys can be enumerated.
IterationOrders(S) ==
    LET asc == Ascending(S)
    IN  {[k \in 1..Len(asc) |-> f[asc[k]]] : f \in Permutations(S)}

\* The orders in which search() may report the pairs: the cell scan forwards
\* or backwards.
search(pts, dist) ==
    LET s == Ascending(ClosePairs(pts, dist)) IN {s, Reverse(s)}

(***************************************************************************)
(* contact_map                                                             *)
(***************************************************************************)
\* Mutant: the counter is assigned instead of incremented.
OutputAssign_Overwrite(map, pair) ==
    LET cpair == <<pair[1], pair[2]>>
    IN  [p \in DOMAIN map \cup {cpair} |-> IF p = cpair THEN 1 ELSE map[p]]

\* Mutant: the pair is stored with its indices exchanged when the second one
\* is odd.
OutputAssign_Swapped(map, pair) ==
    LET cpair == IF pair[2] % 2 = 1 THEN <<pair[2], pair[1]>> ELSE <<pair[1], pair[2]>>
    IN  IF cpair \in DOMAIN map
        THEN [map EXCEPT ![cpair] = @ + 1]
        ELSE [p \in DOMAIN map \cup {cpair} |-> IF p = cpair THEN 1 ELSE map[p]]

\* contact_output_iterator::operator=: contacts[cpair] += 1, the entry being
\* value-initialised to 0 when absent.
OutputAssign(map, pair) ==
    LET cpair == contact_pair(pair[1], pair[2])
    IN  IF cpair \in DOMAIN map
        THEN [map EXCEPT ![cpair] = @ + 1]
        ELSE [p \in DOMAIN map \cup {cpair} |-> IF p = cpair THEN 1 ELSE map[p]]

RECURSIVE SearchInto(_, _)
SearchInto(map, found) ==
    IF found = <<>> THEN map
    ELSE SearchInto(OutputAssign(map, Head(found)), Tail(found))

\* Mutant: changing the distance also drops the recorded counts.
set_contact_distance_Resets(dist) ==
    /\ _contact_distance' = dist
    /\ _contacts' = EmptyMap
    /\ ret' = Void
    /\ lastOp' = "set_contact_distance"
    /\ searched' = NoSearch
    /\ first' = IF dist = _contact_distance THEN first ELSE NoFirst
    /\ UNCHANGED nupdates
    /\ UNCHANGED cmRest

set_contact_distance(dist) ==
    /\ _contact_distance' = dist
    /\ ret' = Void
    /\ lastOp' = "set_contact_distance"
    /\ searched' = NoSearch
    /\ first' = IF dist = _contact_distance THEN first ELSE NoFirst
    /\ UNCHANGED <<_contacts, nupdates>>
    /\ UNCHANGED cmRest

contact_distance ==
    /\ ret' = [scalar |-> _contact_distance]
    /\ lastOp' = "contact_distance"
    /\ searched' = NoSearch
    /\ UNCHANGED <<_contact_distance, _contacts, nupdates, first>>
    /\ UNCHANGED cmRest

\* Mutant: the counts are zeroed but the keys stay in the map.
clear_KeepsKeys ==
    /\ _contacts' = [p \in DOMAIN _contacts |-> 0]
    /\ ret' = Void
    /\ lastOp' = "clear"
    /\ searched' = NoSearch
    /\ nupdates' = 0
    /\ first' = NoFirst
    /\ UNCHANGED _contact_distance
    /\ UNCHANGED cmRest

clear ==
    /\ _contacts' = EmptyMap
    /\ ret' = Void
    /\ lastOp' = "clear"
    /\ searched' = NoSearch
    /\ nupdates' = 0
    /\ first' = NoFirst
    /\ UNCHANGED _contact_distance
    /\ UNCHANGED cmRest

update(pts) ==
    /\ nupdates < MaxUpdates
    /\ \E found \in search(pts, _contact_distance) :
           /\ _contacts' = SearchInto(_contacts, found)
           /\ searched' = [dist |-> _contact_distance,
                           pairs |-> {found[k] : k \in 1..Len(found)}]
    /\ ret' = Void
    /\ lastOp' = "update"
    /\ nupdates' = nupdates + 1
    /\ first' = IF nupdates = 0
                THEN [valid |-> TRUE, pts |-> pts, map |-> _contacts']
                ELSE IF first.valid /\ first.pts = pts THEN first ELSE NoFirst
    /\ UNCHANGED _contact_distance
    /\ UNCHANGED cmRest

\* The unordered_map is iterated in an unspecified order into a vector, which
\* std::sort orders with compare_ij (SortSeq: the library sort under the given
\* comparison).
accumulate ==
    /\ ret' \in {[list |-> SortSeq([k \in 1..Len(order) |->
                          <<order[k][1], order[k][2], _contacts[order[k]]>>],
                                      compare_ij)] :
                    order \in IterationOrders(DOMAIN _contacts)}
    /\ lastOp' = "accumulate"
    /\ searched' = NoSearch
    /\ UNCHANGED <<_contact_distance, _contacts, nupdates, first>>
    /\ UNCHANGED cmRest

ContactMapConstructed ==
    /\ _contact_distance = 0
    /\ _contacts = EmptyMap
    /\ ret = Void
    /\ lastOp = "init"
    /\ nupdates = 0
    /\ searched = NoSearch
    /\ first = NoFirst

ContactMapInit == ContactMapConstructed /\ DriverIdle /\ TransitionIdle /\ ConstructIdle /\ QuantizeIdle /\ PrepareIdle /\ ForceIdle /\ FiberIdle /\ StructureIdle

ContactMapNext ==
    \/ \E dist \in Distances : set_contact_distance(dist)
    \/ contact_distance
    \/ clear
    \/ \E pts \in PointSets : update(pts)
    \/ accumulate

SpecContactMap == ContactMapInit /\ [][ContactMapNext]_vars

(***************************************************************************)
(* Properties of contact_map.                                              *)
(***************************************************************************)
Count(map, p) == IF p \in DOMAIN map THEN map[p] ELSE 0

\* C1: update(points) searches with the current contact distance and adds
\* exactly 1 to the count of every pair the search reports (creating it at 1
\* when absent), leaving every other pair as it was; and no call other than
\* clear() makes a recorded pair disappear or lowers its count.
C1_UpdateAddsOne ==
    [][ /\ lastOp' = "update" =>
              /\ searched'.dist = _contact_distance
              /\ DOMAIN _contacts' = DOMAIN _contacts \cup searched'.pairs
              /\ \A p \in DOMAIN _contacts' :
                    _contacts'[p] =
                        IF p \in searched'.pairs
                        THEN Count(_contacts, p) + 1
                        ELSE _contacts[p]
        /\ (lastOp' = "update" /\ nupdates' = 1) =>
              searched'.pairs =
                  {p \in AllPairs :
                      /\ p[1] < p[2]
                      /\ Abs(first'.pts[p[1]] - first'.pts[p[2]]) <= _contact_distance}
        /\ lastOp' # "clear" =>
              \A p \in DOMAIN _contacts :
                  p \in DOMAIN _contacts' /\ _contacts'[p] >= _contacts[p]
      ]_vars

\* A pair counted twice next to a pair created by the latest update().
C1_Witness ==
    /\ lastOp = "update"
    /\ \E p, q \in DOMAIN _contacts : _contacts[p] = 2 /\ _contacts[q] = 1

\* C2: from an empty map, two successive update() calls on the same points
\* with the same contact distance record the pairs of a single update(),
\* each with twice its count; and accumulate() after clear() returns an
\* empty list.
C2_TwiceAndCleared ==
    /\ (nupdates = 2 /\ first.valid) =>
           /\ DOMAIN _contacts = DOMAIN first.map
           /\ \A p \in DOMAIN _contacts : _contacts[p] = 2 * first.map[p]
    /\ (nupdates = 0 /\ lastOp = "accumulate") => ret.list = <<>>

\* Two identical updates that found at least two pairs.
C2_Witness ==
    /\ nupdates = 2
    /\ first.valid
    /\ Cardinality(DOMAIN first.map) >= 2
    /\ lastOp = "update"

\* C3: accumulate() returns one (i, j, count) triple per recorded pair, each
\* count positive, in strictly ascending order of (i << 32) | j, that is of
\* i and then of j.
C3_AccumulateSorted ==
    lastOp = "accumulate" =>
        /\ Len(ret.list) = Cardinality(DOMAIN _contacts)
        /\ \A p \in DOMAIN _contacts :
               \E k \in 1..Len(ret.list) : ret.list[k] = <<p[1], p[2], _contacts[p]>>
        /\ \A k \in 1..Len(ret.list) : ret.list[k][3] > 0
        /\ \A k \in 1..(Len(ret.list) - 1) :
               \/ ret.list[k][1] < ret.list[k + 1][1]
               \/ ret.list[k][1] = ret.list[k + 1][1] /\ ret.list[k][2] < ret.list[k + 1][2]

\* A returned list of three triples, two of them with the same first index.
C3_Witness ==
    /\ lastOp = "accumulate"
    /\ Len(ret.list) >= 3
    /\ \E k \in 1..(Len(ret.list) - 1) : ret.list[k][1] = ret.list[k + 1][1]

\* C4: set_contact_distance() leaves the recorded counts alone, clear()
\* empties them and leaves the contact distance alone, accumulate() changes
\* neither.
C4_Frames ==
    [][ /\ lastOp' = "set_contact_distance" => _contacts' = _contacts
        /\ lastOp' = "clear" =>
              _contacts' = EmptyMap /\ _contact_distance' = _contact_distance
        /\ lastOp' = "accumulate" =>
              _contacts' = _contacts /\ _contact_distance' = _contact_distance
      ]_vars

\* The distance was changed while counts were recorded.
C4_Witness ==
    /\ lastOp = "set_contact_distance"
    /\ _contact_distance # 0
    /\ _contacts # EmptyMap

\* C5: every recorded key and every returned triple has i < j, so a contact
\* of a and b is never held under both (a, b) and (b, a).
C5_OneKeyPerContact ==
    /\ \A p \in DOMAIN _contacts :
           p[1] < p[2] /\ <<p[2], p[1]>> \notin DOMAIN _contacts
    /\ lastOp = "accumulate" =>
           \A k, l \in 1..Len(ret.list) :
               ret.list[k][1] < ret.list[k][2] /\ <<ret.list[k][1], ret.list[k][2]>> # <<ret.list[l][2], ret.list[l][1]>>

\* All pairs of the particles were found close and returned.
C5_Witness ==
    /\ lastOp = "accumulate"
    /\ Len(ret.list) = (NumParticles * (NumParticles - 1)) \div 2
    /\ nupdates >= 2

(***************************************************************************)
(* simulation_store: the trajectory file.  A store value holds the stage   *)
(* the object addresses (_stage) and the content of the file under         *)
(* /stages: the ".steps" dataset of each stage that has one, the           *)
(* "<step>/positions" datasets, the "<step>/context" groups and the        *)
(* "<step>/contact_map" datasets.  Step keys are decimal strings, kept as  *)
(* sequences of digit characters.                                          *)
(***************************************************************************)
MaxSteps == 2           \* largest configured step count of a stage
MaxInterval == 2        \* largest configured sampling interval (and the like)

DigitChars == <<"0", "1", "2", "3", "4", "5", "6", "7", "8", "9">>

RECURSIVE to_string(_)
to_string(n) ==
    IF n < 10 THEN <<DigitChars[n + 1]>>
    ELSE to_string(n \div 10) \o <<DigitChars[(n % 10) + 1]>>

DigitValue(c) == CHOOSE d \in 0..9 : DigitChars[d + 1] = c

RECURSIVE stol(_)
stol(str) ==
    IF Len(str) = 1 THEN DigitValue(str[1])
    ELSE 10 * stol(SubSeq(str, 1, Len(str) - 1)) + DigitValue(str[Len(str)])

set_stage(st, name) == [st EXCEPT !._stage = name]

check_positions(st, k) == <<st._stage, to_string(k)>> \in DOMAIN st.positions

\* The empty list is written only when the stage already has a ".steps" dataset.
clear_frames(st) ==
    IF st._stage \in DOMAIN st.steps
    THEN [st EXCEPT !.steps = (st._stage :> <<>>) @@ @]
    ELSE st

append_frame(st, k) ==
    LET frames == IF st._stage \in DOMAIN st.steps THEN st.steps[st._stage] ELSE <<>>
    IN  [st EXCEPT !.steps = (st._stage :> Append(frames, to_string(k))) @@ @]

save_positions(st, k, positions) ==
    [st EXCEPT !.positions = (<<st._stage, to_string(k)>> :> positions) @@ @]

load_steps(st) ==
    IF st._stage \in DOMAIN st.steps
    THEN [i \in 1..Len(st.steps[st._stage]) |-> stol(st.steps[st._stage][i])]
    ELSE <<>>

load_positions(st, k) == st.positions[<<st._stage, to_string(k)>>]

save_context(st, k, context) ==
    [st EXCEPT !.context = (<<st._stage, to_string(k)>> :> context) @@ @]

save_interphase_context(st, k, context) == save_context(st, k, context)

\* An empty contact list is not written.
save_contacts(st, k, contacts) ==
    IF contacts = {} THEN st
    ELSE [st EXCEPT !.contacts = (<<st._stage, to_string(k)>> :> contacts) @@ @]

\* One call of a callback on the store: the member function, the step and the data
StoreCall(name, k, data) == [call |-> name, step |-> k, data |-> data]

perform(st, c) ==
    CASE c.call = "save_positions" -> save_positions(st, c.step, c.data)
      [] c.call = "save_context" -> save_context(st, c.step, c.data)
      [] c.call = "save_interphase_context" -> save_interphase_context(st, c.step, c.data)
      [] c.call = "save_contacts" -> save_contacts(st, c.step, c.data)
      [] c.call = "append_frame" -> append_frame(st, c.step)

\* The store after each of the calls, made one after the other
RECURSIVE passed_through(_, _)
passed_through(st, store_calls) ==
    IF Len(store_calls) = 0 THEN <<>>
    ELSE LET next == perform(st, Head(store_calls))
         IN  <<next>> \o passed_through(next, Tail(store_calls))

\* The store after all of the calls
performed(st, store_calls) ==
    IF Len(store_calls) = 0 THEN st
    ELSE passed_through(st, store_calls)[Len(store_calls)]

(***************************************************************************)
(* The stage drivers.  Four programs are modelled:                         *)
(*   "anatelophase"        the driver with anaphase and telophase stages   *)
(*   "anatelophase_legacy" its earlier version (dragging and packing)      *)
(*   "interphase"          relaxation, then the interphase simulation      *)
(*   "prometaphase"                                                        *)
(* A positions array is kept by its size and its history: where the values *)
(* came from, how many elements were copied into it from a loaded          *)
(* structure, whether a copy ran past its end, and how many integration    *)
(* steps moved it.                                                         *)
(***************************************************************************)
Drivers == {"anatelophase", "anatelophase_legacy", "interphase", "prometaphase"}

Stages == {"anaphase", "telophase", "relaxation", "interphase", "prometaphase"}

DriverStages(d) ==
    CASE d = "anatelophase" -> <<"anaphase", "telophase">>
      [] d = "anatelophase_legacy" -> <<"anaphase", "telophase">>
      [] d = "interphase" -> <<"relaxation", "interphase">>
      [] d = "prometaphase" -> <<"prometaphase">>

StepCounts == 0..MaxSteps
Intervals == 1..MaxInterval

\* Progress is printed at every step or at the longest interval.
LoggingIntervals == {1, MaxInterval}

Configs(d) ==
    CASE d = "anatelophase" ->
            [anaphase_steps : StepCounts, telophase_steps : StepCounts,
             sampling_interval : Intervals, logging_interval : LoggingIntervals]
      [] d = "anatelophase_legacy" ->
            [dragging_steps : StepCounts, packing_steps : StepCounts,
             sampling_interval : Intervals, logging_interval : LoggingIntervals]
      [] d = "interphase" ->
            [relaxation_steps : StepCounts, steps : StepCounts,
             relaxation_sampling_interval : Intervals, sampling_interval : Intervals,
             relaxation_logging_interval : LoggingIntervals, logging_interval : LoggingIntervals,
             contactmap_update_interval : Intervals,
             contactmap_output_window : Intervals,
             contactmap_distance : {1}]
      [] d = "prometaphase" ->
            [prometaphase_steps : StepCounts, sampling_interval : Intervals,
             logging_interval : LoggingIntervals]

\* .steps of the integration run of a stage
StageSteps(d, cfg, stage) ==
    CASE stage = "anaphase" ->
            IF d = "anatelophase" THEN cfg.anaphase_steps ELSE cfg.dragging_steps
      [] stage = "telophase" ->
            IF d = "anatelophase" THEN cfg.telophase_steps ELSE cfg.packing_steps
      [] stage = "relaxation" -> cfg.relaxation_steps
      [] stage = "interphase" -> cfg.steps
      [] stage = "prometaphase" -> cfg.prometaphase_steps

Positions(n, origin, copied, overrun, moved) ==
    [n |-> n, origin |-> origin, copied |-> copied, overrun |-> overrun, moved |-> moved]

\* _system.view_positions() of a freshly built system: particle_count points at the origin
FreshPositions == Positions(NumParticles, "default", 0, FALSE, 0)

\* Sizes of an initial structure found in the store
StructureSizes == (NumParticles - 1)..(NumParticles + 1)

GivenStructure(n) == Positions(n, "given", 0, FALSE, 0)

\* Frame index left in the file by an earlier run with other settings
StaleFrames == <<to_string(0), to_string(MaxSteps + 1)>>

FrameIndexes == {<<>>, StaleFrames}

\* Force fields attached by setup()
SetupForcefields(d) ==
    CASE d = "anatelophase" -> {"repulsive", "anaphase_bonding", "anaphase_bending"}
      [] d = "anatelophase_legacy" -> {"repulsive", "bonds", "bends"}
      [] d = "interphase" -> {}
      [] d = "prometaphase" ->
            {"repulsive", "bonds", "bends", "sister", "kinetochore", "polar_ejection"}

\* The stage a store object addresses when the driver is constructed
ConstructedStage(d) == IF d = "prometaphase" THEN "prometaphase" ELSE "unknown"

\* The stage whose step 0 holds the initial structure a driver loads
InitialStage(d) ==
    CASE d = "anatelophase" -> "anaphase"
      [] d = "anatelophase_legacy" -> "anaphase"
      [] d = "interphase" -> "relaxation"
      [] d = "prometaphase" -> "prometaphase"

\* Store files handed to a driver: the stages of the driver have no frame index,
\* an empty one or a stale one, and the initial structure is absent or has one
\* of the sizes.  The legacy driver never reads the store.
Inputs(d) ==
    LET stages == {DriverStages(d)[i] : i \in 1..Len(DriverStages(d))}
        indexes == {[s \in {} |-> <<>>]} \cup {[s \in stages |-> f] : f \in FrameIndexes}
        given == {[p \in {} |-> FreshPositions]} \cup
                 {[p \in {<<InitialStage(d), to_string(0)>>} |-> GivenStructure(n)] :
                      n \in StructureSizes}
        structures == IF d = "anatelophase_legacy" THEN {[p \in {} |-> FreshPositions]}
                      ELSE given
    IN  {[_stage |-> ConstructedStage(d), steps |-> ix, positions |-> ps,
          context |-> [p \in {} |-> 0], contacts |-> [p \in {} |-> {}]] :
             ix \in indexes, ps \in structures}

FirstFunction(d) ==
    CASE d = "anatelophase" -> "run"
      [] d = "anatelophase_legacy" -> "run_initialization"
      [] d = "interphase" -> "run_relaxation"
      [] d = "prometaphase" -> "run"

\* simulation_context as constructed; a scale is kept by the time it was
\* evaluated at and the mean energy by the number of integration steps the
\* positions it was computed from had taken, -1 standing for the initial value.
InitialContext ==
    [time |-> 0, core_scale |-> -1, bond_scale |-> -1, wall_updates |-> 0, mean_energy |-> -1]

\* made lists every update the map took, cleared or not.
InitialContactMap == [contact_distance |-> -2, updates |-> {}, made |-> {}]

\* State after the driver object is constructed (constructor and setup()).
DriverInit ==
    /\ driver \in Drivers
    /\ _config \in Configs(driver)
    /\ input \in Inputs(driver)
    /\ _store = input
    /\ pc = FirstFunction(driver)
    /\ _system = [positions |-> FreshPositions, forcefields |-> SetupForcefields(driver)]
    /\ _random = <<>>
    /\ _context = InitialContext
    /\ _contact_map = InitialContactMap
    /\ run_stage = "none"
    /\ step = 0
    /\ calls = [s \in Stages |-> <<>>]
    /\ ffsteps = {}
    /\ loaded = -1
    /\ error = ""
    /\ clog = <<>>
    /\ quiet = [store |-> input, actual |-> input, context |-> InitialContext,
                contact_map |-> InitialContactMap]
    /\ passed = <<>>

add_forcefield(sys, ff) == [sys EXCEPT !.forcefields = @ \cup {ff}]

remove_forcefield(sys, ff) == [sys EXCEPT !.forcefields = @ \ {ff}]

\* std::copy(init.begin(), init.end(), positions.begin()) into particle_count points
CopyInto(init) ==
    Positions(NumParticles, "loaded",
              IF init.n < NumParticles THEN init.n ELSE NumParticles,
              init.n > NumParticles, 0)

(***************************************************************************)
(* The callbacks of the stages, as functions of the store, the context and *)
(* the contact map they act on.  logs tells whether the logging statements *)
(* are there: they are in the program, and are taken out in the quiet run  *)
(* it is compared with.  printed is what the invocation writes to          *)
(* std::clog.                                                              *)
(***************************************************************************)
Outcome(st, store_calls, ctx, cm, printed) ==
    [store |-> performed(st, store_calls), passed |-> passed_through(st, store_calls),
     context |-> ctx, contact_map |-> cm, printed |-> printed]

\* print_progress: one line naming the stage and the step.
print_progress(stage, k) == <<[stage |-> stage, step |-> k]>>

\* _system.compute_energy() / particle_count, a function of the positions
compute_mean_energy(positions) == positions.moved

\* callback of run_dragging_stage and run_packing_stage (both anatelophase drivers)
anatelophase_callback(stage, cfg, logs, k, st, ctx, cm, positions) ==
    Outcome(st,
            IF k % cfg.sampling_interval = 0
            THEN <<StoreCall("save_positions", k, positions),
                   StoreCall("append_frame", k, <<>>)>>
            ELSE <<>>,
            ctx, cm,
            IF logs /\ k % cfg.logging_interval = 0 THEN print_progress(stage, k) ELSE <<>>)

\* The energy is refreshed for the progress line only.
energy_due_LoggingOnly(with_logging, with_sampling) == with_logging

\* if (with_logging || with_sampling): the energy is computed when it is
\* printed or saved.
energy_due(with_logging, with_sampling) == with_logging \/ with_sampling

relaxation_callback(cfg, logs, k, st, ctx, cm, positions) ==
    LET with_logging == logs /\ k % cfg.relaxation_logging_interval = 0
        with_sampling == k % cfg.relaxation_sampling_interval = 0
        ctx1 == IF energy_due(with_logging, with_sampling)
                THEN [ctx EXCEPT !.mean_energy = compute_mean_energy(positions)]
                ELSE ctx
    IN  Outcome(st,
                IF with_sampling
                THEN <<StoreCall("save_positions", k, positions),
                       StoreCall("save_context", k, ctx1),
                       StoreCall("append_frame", k, <<>>)>>
                ELSE <<>>,
                ctx1, cm,
                IF with_logging THEN print_progress("relaxation", k) ELSE <<>>)

\* core_scale and bond_scale are kept by the time they were evaluated at;
\* the contact distance by the core_scale it was computed from.  An update of the
\* contact map is kept with the contact distance the search used and the
\* core_scale the context held when it was made.
update_core_scale(ctx, cm) ==
    [context |-> [ctx EXCEPT !.core_scale = ctx.time, !.bond_scale = ctx.time],
     contact_map |-> [cm EXCEPT !.contact_distance = ctx.time]]

update_wall_semiaxes(ctx) == [ctx EXCEPT !.wall_updates = @ + 1]

\* md::neighbor_searcher::search on the particles of a structure, none of
\* which coincide: a positive contact distance (a positive contactmap_distance
\* times a core_scale) finds pairs, the distance 0 finds none.
search_finds(cfg, cm) ==
    cm.contact_distance # InitialContactMap.contact_distance /\ cfg.contactmap_distance > 0

\* _contact_map.accumulate(): the updates that counted a pair
accumulated(cm) == {u \in cm.updates : u.found}

interphase_callback(cfg, logs, k, st, ctx, cm, positions) ==
    LET ctx0 == [ctx EXCEPT !.time = k]
        with_logging == logs /\ k % cfg.logging_interval = 0
        with_sampling == k % cfg.sampling_interval = 0
        ctx1 == IF energy_due(with_logging, with_sampling)
                THEN [ctx0 EXCEPT !.mean_energy = compute_mean_energy(positions)]
                ELSE ctx0
        sample_frame == k \div cfg.sampling_interval
        sampled == IF with_sampling
                   THEN <<StoreCall("save_positions", k, positions),
                          StoreCall("save_interphase_context", k, ctx1)>>
                   ELSE <<>>
        cm1 == IF k % cfg.contactmap_update_interval = 0
               THEN LET made == [step |-> k, distance |-> cm.contact_distance,
                                 core_scale |-> ctx1.core_scale,
                                 found |-> search_finds(cfg, cm)]
                    IN  [cm EXCEPT !.updates = @ \cup {made}, !.made = @ \cup {made}]
               ELSE cm
        due == with_sampling /\ sample_frame % cfg.contactmap_output_window = 0
        saved == IF due THEN <<StoreCall("save_contacts", k, accumulated(cm1))>> ELSE <<>>
        cm2 == IF due THEN [cm1 EXCEPT !.updates = {}] ELSE cm1
        listed == IF with_sampling THEN <<StoreCall("append_frame", k, <<>>)>> ELSE <<>>
        scaled == update_core_scale(ctx1, cm2)
    IN  Outcome(st, sampled \o saved \o listed,
                update_wall_semiaxes(scaled.context), scaled.contact_map,
                IF with_logging THEN print_progress("interphase", k) ELSE <<>>)

\* The step is listed before its positions are written.
save_sample_ListedFirst(k, positions) ==
    <<StoreCall("append_frame", k, <<>>), StoreCall("save_positions", k, positions)>>

\* The calls save_sample(k) makes on the store
save_sample(k, positions) ==
    <<StoreCall("save_positions", k, positions), StoreCall("append_frame", k, <<>>)>>

update_context(ctx, k) == [ctx EXCEPT !.time = k]

prometaphase_callback(cfg, logs, k, st, ctx, cm, positions) ==
    Outcome(st, IF k % cfg.sampling_interval = 0 THEN save_sample(k, positions) ELSE <<>>,
            update_context(ctx, k), cm,
            IF logs /\ k % cfg.logging_interval = 0
            THEN print_progress("prometaphase", k) ELSE <<>>)

callback(stage, cfg, logs, k, st, ctx, cm, positions) ==
    CASE stage \in {"anaphase", "telophase"} ->
            anatelophase_callback(stage, cfg, logs, k, st, ctx, cm, positions)
      [] stage = "relaxation" -> relaxation_callback(cfg, logs, k, st, ctx, cm, positions)
      [] stage = "interphase" -> interphase_callback(cfg, logs, k, st, ctx, cm, positions)
      [] stage = "prometaphase" -> prometaphase_callback(cfg, logs, k, st, ctx, cm, positions)

\* One invocation of the callback of a stage, on store st and the given positions.
\* The quiet run takes the same invocation on its own context and contact map.
Invoke(stage, k, st, positions) ==
    LET r == callback(stage, _config, TRUE, k, st, _context, _contact_map, positions)
        q == callback(stage, _config, FALSE, k, st, quiet.context, quiet.contact_map,
                      positions)
    IN  /\ _store' = r.store
        /\ _context' = r.context
        /\ _contact_map' = r.contact_map
        /\ calls' = [calls EXCEPT ![stage] = Append(@, k)]
        /\ clog' = clog \o r.printed
        /\ quiet' = [store |-> q.store, actual |-> r.store, context |-> q.context,
                     contact_map |-> q.contact_map]
        /\ passed' = r.passed

(***************************************************************************)
(* md::simulate_brownian_dynamics: for each step 1..steps it advances the  *)
(* positions and then invokes the callback with the step index; the        *)
(* callback returns before the next step is taken.                         *)
(***************************************************************************)
simulate_brownian_dynamics(stage) ==
    /\ run_stage' = stage
    /\ step' = 0
    /\ pc' = "integrate"

integrate_step ==
    /\ pc = "integrate"
    /\ step < StageSteps(driver, _config, run_stage)
    /\ step' = step + 1
    /\ _system' = [_system EXCEPT !.positions.moved = @ + 1]
    /\ ffsteps' = ffsteps \cup {[stage |-> run_stage, forcefields |-> _system.forcefields]}
    /\ pc' = "callback"
    /\ UNCHANGED <<driver, _config, _store, _random, _context, _contact_map, run_stage,
                   calls, loaded, input, error>>
    /\ UNCHANGED <<clog, quiet, passed>>
    /\ UNCHANGED drRest

integrator_callback ==
    /\ pc = "callback"
    /\ Invoke(run_stage, step, _store, _system.positions)
    /\ pc' = "integrate"
    /\ UNCHANGED <<driver, _config, _system, _random, run_stage, step, ffsteps, loaded,
                   input, error>>
    /\ UNCHANGED drRest

\* The function that follows the integration run of a stage
Continuation(d, stage) ==
    CASE stage = "anaphase" -> "run_packing_stage"
      [] stage = "telophase" ->
            IF d = "anatelophase_legacy" THEN "run_refinement" ELSE "finished"
      [] stage = "relaxation" -> "run_simulation"
      [] stage = "interphase" -> "finished"
      [] stage = "prometaphase" -> "finished"

integrator_return ==
    /\ pc = "integrate"
    /\ step = StageSteps(driver, _config, run_stage)
    /\ pc' = Continuation(driver, run_stage)
    /\ UNCHANGED <<driver, _config, _store, _system, _random, _context, _contact_map,
                   run_stage, step, calls, ffsteps, loaded, input, error>>
    /\ UNCHANGED <<clog, quiet, passed>>
    /\ UNCHANGED drRest

(***************************************************************************)
(* The functions of the drivers.                                           *)
(***************************************************************************)
\* An exception that leaves run(): the program ends with the message.
Throw(what) ==
    /\ error' = what
    /\ pc' = "failed"

\* A stage started without drawing the integrator's seed from _random.
RunStage_NoSeed(stage, st, positions) ==
    /\ Invoke(stage, 0, st, positions)
    /\ UNCHANGED _random
    /\ simulate_brownian_dynamics(stage)

\* callback(0); md::simulate_brownian_dynamics(_system, {.seed = _random(), ...})
RunStage(stage, st, positions) ==
    /\ Invoke(stage, 0, st, positions)
    /\ _random' = Append(_random, "seed")
    /\ simulate_brownian_dynamics(stage)

\* run() of the anatelophase driver up to run_initialization(): the frames of
\* the stage the store addresses are cleared, then the stage is set.
anatelophase_run ==
    /\ driver = "anatelophase"
    /\ pc = "run"
    /\ _store' = set_stage(clear_frames(_store), "anaphase")
    /\ pc' = "run_initialization"
    /\ UNCHANGED <<driver, _config, _system, _random, _context, _contact_map, run_stage,
                   step, calls, ffsteps, loaded, input, error>>
    /\ UNCHANGED <<clog, quiet, passed>>
    /\ UNCHANGED drRest

anatelophase_run_initialization ==
    /\ driver = "anatelophase"
    /\ pc = "run_initialization"
    /\ IF check_positions(_store, 0)
       THEN LET init_positions == load_positions(_store, 0)
            IN  /\ loaded' = init_positions.n
                /\ IF init_positions.n # _system.positions.n
                   THEN /\ Throw("initial structure size mismatch")
                        /\ UNCHANGED _system
                   ELSE /\ _system' = [_system EXCEPT !.positions = CopyInto(init_positions)]
                        /\ pc' = "run_dragging_stage"
                        /\ UNCHANGED error
                /\ UNCHANGED _random
       ELSE /\ _system' = [_system EXCEPT
                              !.positions = Positions(NumParticles, "random", 0, FALSE, 0)]
            /\ _random' = Append(_random, "normal_vector")
            /\ pc' = "run_dragging_stage"
            /\ UNCHANGED <<loaded, error>>
    /\ UNCHANGED <<driver, _config, _store, _context, _contact_map, run_stage, step,
                   calls, ffsteps, input>>
    /\ UNCHANGED <<clog, quiet, passed>>
    /\ UNCHANGED drRest

anatelophase_run_dragging_stage ==
    /\ driver = "anatelophase"
    /\ pc = "run_dragging_stage"
    /\ _system' = add_forcefield(_system, "dragging")
    /\ RunStage("anaphase", set_stage(_store, "anaphase"), _system.positions)
    /\ UNCHANGED <<driver, _config, ffsteps, loaded, input, error>>
    /\ UNCHANGED drRest

anatelophase_run_packing_stage ==
    /\ driver = "anatelophase"
    /\ pc = "run_packing_stage"
    /\ _system' =
          add_forcefield(
            add_forcefield(
              remove_forcefield(
                remove_forcefield(
                  add_forcefield(remove_forcefield(_system, "dragging"), "packing"),
                  "anaphase_bonding"),
                "anaphase_bending"),
              "telophase_bonding"),
            "telophase_bending")
    /\ RunStage("telophase", set_stage(_store, "telophase"), _system.positions)
    /\ UNCHANGED <<driver, _config, ffsteps, loaded, input, error>>
    /\ UNCHANGED drRest

\* The earlier anatelophase driver: positions are always generated.
legacy_run_initialization ==
    /\ driver = "anatelophase_legacy"
    /\ pc = "run_initialization"
    /\ _system' = [_system EXCEPT
                      !.positions = Positions(NumParticles, "random", 0, FALSE, 0)]
    /\ _random' = Append(_random, "normal_vector")
    /\ pc' = "run_dragging_stage"
    /\ UNCHANGED <<driver, _config, _store, _context, _contact_map, run_stage, step,
                   calls, ffsteps, loaded, input, error>>
    /\ UNCHANGED <<clog, quiet, passed>>
    /\ UNCHANGED drRest

legacy_run_dragging_stage ==
    /\ driver = "anatelophase_legacy"
    /\ pc = "run_dragging_stage"
    /\ _system' = add_forcefield(_system, "dragging")
    /\ RunStage("anaphase", set_stage(_store, "anaphase"), _system.positions)
    /\ UNCHANGED <<driver, _config, ffsteps, loaded, input, error>>
    /\ UNCHANGED drRest

\* The packing field is added; the dragging field stays attached.
legacy_run_packing_stage ==
    /\ driver = "anatelophase_legacy"
    /\ pc = "run_packing_stage"
    /\ _system' = add_forcefield(_system, "packing")
    /\ RunStage("telophase", set_stage(_store, "telophase"), _system.positions)
    /\ UNCHANGED <<driver, _config, ffsteps, loaded, input, error>>
    /\ UNCHANGED drRest

\* run_relaxation of the interphase driver.  The loaded structure is copied
\* without comparing sizes: a shorter one fills only the leading particles, a
\* longer one is written past the end of the positions array, after which the
\* program either dies or goes on.  Reading a dataset that does not exist fails.
interphase_run_relaxation ==
    /\ driver = "interphase"
    /\ pc = "run_relaxation"
    /\ LET st == set_stage(_store, "relaxation")
       IN  IF ~check_positions(st, 0)
           THEN /\ Throw("cannot read positions")
                /\ _store' = st
                /\ UNCHANGED <<_system, _random, _context, _contact_map, run_stage, step,
                               calls, loaded, clog, quiet, passed>>
           ELSE LET init_positions == load_positions(st, 0)
                    positions == CopyInto(init_positions)
                IN  /\ loaded' = init_positions.n
                    /\ _system' = [_system EXCEPT !.positions = positions]
                    /\ \/ /\ positions.overrun
                          /\ pc' = "crashed"
                          /\ _store' = st
                          /\ UNCHANGED <<_random, _context, _contact_map, run_stage,
                                         step, calls, clog, quiet, passed>>
                       \/ RunStage("relaxation", st, positions)
                    /\ UNCHANGED error
    /\ UNCHANGED <<driver, _config, ffsteps, input>>
    /\ UNCHANGED drRest

interphase_run_simulation ==
    /\ driver = "interphase"
    /\ pc = "run_simulation"
    /\ RunStage("interphase", clear_frames(set_stage(_store, "interphase")),
                _system.positions)
    /\ UNCHANGED <<driver, _config, _system, ffsteps, loaded, input, error>>
    /\ UNCHANGED drRest

\* run() of the prometaphase driver up to run_initialization()
prometaphase_run ==
    /\ driver = "prometaphase"
    /\ pc = "run"
    /\ _store' = clear_frames(set_stage(_store, "prometaphase"))
    /\ pc' = "run_initialization"
    /\ UNCHANGED <<driver, _config, _system, _random, _context, _contact_map, run_stage,
                   step, calls, ffsteps, loaded, input, error>>
    /\ UNCHANGED <<clog, quiet, passed>>
    /\ UNCHANGED drRest

prometaphase_run_initialization ==
    /\ driver = "prometaphase"
    /\ pc = "run_initialization"
    /\ IF ~check_positions(_store, 0)
       THEN /\ Throw("no initial structure is given")
            /\ UNCHANGED <<_system, loaded>>
       ELSE LET init_positions == load_positions(_store, 0)
            IN  /\ loaded' = init_positions.n
                /\ IF init_positions.n # _system.positions.n
                   THEN /\ Throw("initial structure size mismatch")
                        /\ UNCHANGED _system
                   ELSE /\ _system' = [_system EXCEPT !.positions = CopyInto(init_positions)]
                        /\ pc' = "run_sampling"
                        /\ UNCHANGED error
    /\ UNCHANGED <<driver, _config, _store, _random, _context, _contact_map, run_stage,
                   step, calls, ffsteps, input>>
    /\ UNCHANGED <<clog, quiet, passed>>
    /\ UNCHANGED drRest

\* Mutant: the integrator is started without the driver's own callback(0).
prometaphase_run_sampling_NoInitialCall ==
    /\ driver = "prometaphase"
    /\ pc = "run_sampling"
    /\ _random' = Append(_random, "seed")
    /\ simulate_brownian_dynamics("prometaphase")
    /\ UNCHANGED <<driver, _config, _store, _context, _contact_map, calls, _system,
                   ffsteps, loaded, input, error>>
    /\ UNCHANGED <<clog, quiet, passed>>
    /\ UNCHANGED drRest

prometaphase_run_sampling ==
    /\ driver = "prometaphase"
    /\ pc = "run_sampling"
    /\ RunStage("prometaphase", _store, _system.positions)
    /\ UNCHANGED <<driver, _config, _system, ffsteps, loaded, input, error>>
    /\ UNCHANGED drRest

DriverNext ==
    \/ anatelophase_run
    \/ anatelophase_run_initialization
    \/ anatelophase_run_dragging_stage
    \/ anatelophase_run_packing_stage
    \/ legacy_run_initialization
    \/ legacy_run_dragging_stage
    \/ legacy_run_packing_stage
    \/ interphase_run_relaxation
    \/ interphase_run_simulation
    \/ prometaphase_run
    \/ prometaphase_run_initialization
    \/ prometaphase_run_sampling
    \/ integrate_step
    \/ integrator_callback
    \/ integrator_return

DriverProgramInit == DriverInit /\ ContactMapConstructed /\ TransitionIdle /\ ConstructIdle /\ QuantizeIdle /\ PrepareIdle /\ ForceIdle /\ FiberIdle /\ StructureIdle

SpecDriver == DriverProgramInit /\ [][DriverNext]_vars

(***************************************************************************)
(* Properties of the stage drivers.                                        *)
(***************************************************************************)
StagesOf(d) == {DriverStages(d)[i] : i \in 1..Len(DriverStages(d))}

\* The integration run of stage s of the running driver has returned.
StageCompleted(s) ==
    \/ pc \in {"finished", "run_refinement"}
    \/ s = "anaphase" /\ (pc = "run_packing_stage" \/ run_stage = "telophase")
    \/ s = "relaxation" /\ (pc = "run_simulation" \/ run_stage = "interphase")

\* C6: in every stage a driver runs, the callback is executed exactly once for
\* each step index 0, 1, ..., steps, in ascending order, and the invocation for
\* a step completes before the next integration step starts; step 0 is handled
\* once, by the driver's own callback(0).
C6_CallbackOncePerStep ==
    driver \in Drivers =>
        \A s \in Stages :
            /\ \A i \in 1..Len(calls[s]) : calls[s][i] = i - 1
            /\ s \notin StagesOf(driver) => calls[s] = <<>>
            /\ s \in StagesOf(driver) =>
                  /\ Len(calls[s]) <= StageSteps(driver, _config, s) + 1
                  /\ (run_stage = s /\ pc = "integrate") => Len(calls[s]) = step + 1
                  /\ (run_stage = s /\ pc = "callback") => Len(calls[s]) = step
                  /\ StageCompleted(s) =>
                        Len(calls[s]) = StageSteps(driver, _config, s) + 1

C6_Witness ==
    /\ driver = "interphase"
    /\ pc = "finished"
    /\ _config.relaxation_steps >= 2
    /\ _config.steps >= 2
    /\ calls["relaxation"] = [i \in 1..(_config.relaxation_steps + 1) |-> i - 1]
    /\ calls["interphase"] = [i \in 1..(_config.steps + 1) |-> i - 1]

\* C7: in the anatelophase drivers every anaphase (dragging) integration step
\* runs with the dragging field attached and the packing field detached, every
\* telophase (packing) step with the packing field attached and the dragging
\* field detached, and likewise for the anaphase-strength and telophase-strength
\* bond and bending fields; no step runs with dragging and packing both attached
\* or with both bond fields attached.
C7_ForceFieldSwap ==
    driver \in {"anatelophase", "anatelophase_legacy"} =>
        \A r \in ffsteps :
            /\ r.stage = "anaphase" =>
                  /\ "dragging" \in r.forcefields
                  /\ "packing" \notin r.forcefields
                  /\ {"telophase_bonding", "telophase_bending"} \cap r.forcefields = {}
                  /\ driver = "anatelophase" =>
                        {"anaphase_bonding", "anaphase_bending"} \subseteq r.forcefields
            /\ r.stage = "telophase" =>
                  /\ "packing" \in r.forcefields
                  /\ "dragging" \notin r.forcefields
                  /\ {"anaphase_bonding", "anaphase_bending"} \cap r.forcefields = {}
                  /\ driver = "anatelophase" =>
                        {"telophase_bonding", "telophase_bending"} \subseteq r.forcefields
            /\ ~({"dragging", "packing"} \subseteq r.forcefields)
            /\ ~({"anaphase_bonding", "telophase_bonding"} \subseteq r.forcefields)

\* C8: every driver that loads an initial structure rejects one whose particle
\* count differs from the system's with a fatal error before the first
\* integration step, without copying any of it into the system's positions.
C8_SizeMismatchRejected ==
    (driver \in Drivers /\ loaded # -1 /\ loaded # NumParticles) =>
        /\ pc = "failed"
        /\ error # ""
        /\ _system.positions = FreshPositions
        /\ ffsteps = {}

\* C9: when the store has no positions at step 0 of the prometaphase stage, the
\* prometaphase driver's run() ends in a fatal error, no integration step is
\* executed, and nothing in the store, the stage's frame index included, is
\* written or modified.
C9_NoInitialStructure ==
    (driver = "prometaphase" /\ ~check_positions(set_stage(input, "prometaphase"), 0)) =>
        /\ pc \in {"run", "run_initialization", "failed"}
        /\ pc = "failed" => error = "no initial structure is given"
        /\ ffsteps = {}
        /\ _store.steps = input.steps
        /\ _store.positions = input.positions
        /\ _store.context = input.context
        /\ _store.contacts = input.contacts

(***************************************************************************)
(* The transition program: main() runs one of transition_interphase,       *)
(* transition_prometaphase and transition_cycle, which read the last frame *)
(* of the previous stage and save the converted structure as step 0 of the *)
(* next stage.  The first two work on one file (target); the cycle mode    *)
(* reads the source file and writes the target file.                       *)
(***************************************************************************)
Modes == {"interphase", "prometaphase", "cycle"}

prev_stage(m) ==
    CASE m = "interphase" -> "telophase"
      [] m = "prometaphase" -> "interphase"
      [] m = "cycle" -> "prometaphase"

next_stage(m) ==
    CASE m = "interphase" -> "relaxation"
      [] m = "prometaphase" -> "prometaphase"
      [] m = "cycle" -> "anaphase"

\* The store object the previous stage is read from, and the one written to
PrevStore(m) == IF m = "cycle" THEN "source" ELSE "target"
NextStore(m) == "target"

RECURSIVE StepList(_)
StepList(K) ==
    IF K = {} THEN <<>>
    ELSE LET least == CHOOSE k \in K : \A j \in K : k <= j
         IN  <<to_string(least)>> \o StepList(K \ {least})

\* Positions a driver saved at step k
SampledPositions(k) == Positions(NumParticles, "sampled", 0, FALSE, k)

\* What a previous stage can have left in a file: positions at some steps, and
\* no frame index, an empty one (cleared by a run that then failed), or one that
\* lists sampled steps 0 < ... whose positions are all saved.
PrevContents ==
    LET sampled == {K \in SUBSET StepCounts : K # {} => 0 \in K}
    IN  {[index |-> ix, saved |-> P] :
            ix \in {"absent", "listed"}, P \in SUBSET StepCounts} \cup
        UNION {{[index |-> "listed", saved |-> P, frames |-> K] :
                    P \in {Q \in SUBSET StepCounts : K \subseteq Q}} :
                  K \in sampled \ {{}}}

FramesOf(c) == IF "frames" \in DOMAIN c THEN c.frames ELSE {}

StoreWith(stage, c, other, has0) ==
    [_stage |-> "unknown",
     steps |-> IF c.index = "absent" THEN [s \in {} |-> <<>>]
               ELSE [s \in {stage} |-> StepList(FramesOf(c))],
     positions |-> [p \in ({stage} \X {to_string(k) : k \in c.saved}) \cup
                          (IF has0 THEN {<<other, to_string(0)>>} ELSE {}) |->
                       IF p[1] = stage THEN SampledPositions(stol(p[2]))
                       ELSE GivenStructure(NumParticles)],
     context |-> [p \in {} |-> 0],
     contacts |-> [p \in {} |-> {}]]

NoContent == [index |-> "absent", saved |-> {}]

\* The files handed to the program in mode m
Handed(m) ==
    IF m = "cycle"
    THEN {[source |-> StoreWith(prev_stage(m), c, next_stage(m), FALSE),
           target |-> StoreWith(prev_stage(m), NoContent, next_stage(m), has0)] :
             c \in PrevContents, has0 \in BOOLEAN}
    ELSE {[target |-> StoreWith(prev_stage(m), c, next_stage(m), has0)] :
             c \in PrevContents, has0 \in BOOLEAN}

\* The structure a transition computes from the positions it read
Converted(m, positions) == [positions EXCEPT !.origin = m]

\* steps.back(): the last element; of an empty vector it is undefined: the read
\* before the start of the storage kills the program or yields some value.
Back(steps) ==
    IF steps # <<>> THEN {[value |-> steps[Len(steps)]]}
    ELSE {[killed |-> TRUE]} \cup {[value |-> g] : g \in StepCounts}

\* Body shared by the three transitions: set_stage(prev_stage);
\* load_positions(load_steps().back()); convert; set_stage(next_stage);
\* save_positions(0, ...).  A read of a missing dataset throws.
Transition(m) ==
    LET pf == PrevStore(m)
        nf == NextStore(m)
        prev == set_stage(stores[pf], prev_stage(m))
        opened == [stores EXCEPT ![pf] = prev]
    IN  \E last \in Back(load_steps(prev)) :
            IF "killed" \in DOMAIN last
            THEN /\ stores' = opened
                 /\ status' = [signal |-> "SIGSEGV"]
                 /\ tpc' = "exit"
                 /\ UNCHANGED reads
            ELSE IF ~check_positions(prev, last.value)
            THEN /\ stores' = opened
                 /\ tpc' = "catch"
                 /\ UNCHANGED <<reads, status>>
            ELSE /\ reads' = reads \cup {<<pf, prev_stage(m), to_string(last.value)>>}
                 /\ stores' = [opened EXCEPT ![nf] =
                                  save_positions(set_stage(@, next_stage(m)), 0,
                                      Converted(m, load_positions(prev, last.value)))]
                 /\ status' = [code |-> 0]
                 /\ tpc' = "exit"

transition_interphase ==
    /\ tpc = "main"
    /\ mode = "interphase"
    /\ Transition("interphase")
    /\ UNCHANGED <<mode, stderr, handed>>
    /\ UNCHANGED trRest

transition_prometaphase ==
    /\ tpc = "main"
    /\ mode = "prometaphase"
    /\ Transition("prometaphase")
    /\ UNCHANGED <<mode, stderr, handed>>
    /\ UNCHANGED trRest

transition_cycle ==
    /\ tpc = "main"
    /\ mode = "cycle"
    /\ Transition("cycle")
    /\ UNCHANGED <<mode, stderr, handed>>
    /\ UNCHANGED trRest

\* catch (std::exception const& err) of main(): the message is printed, 1 returned
main_catch ==
    /\ tpc = "catch"
    /\ stderr' = "error: cannot read positions"
    /\ status' = [code |-> 1]
    /\ tpc' = "exit"
    /\ UNCHANGED <<mode, stores, reads, handed>>
    /\ UNCHANGED trRest

TransitionInit ==
    /\ mode \in Modes
    /\ handed \in Handed(mode)
    /\ stores = handed
    /\ tpc = "main"
    /\ reads = {}
    /\ status = [running |-> TRUE]
    /\ stderr = ""

TransitionNext ==
    \/ transition_interphase
    \/ transition_prometaphase
    \/ transition_cycle
    \/ main_catch

TransitionProgramInit == TransitionInit /\ ContactMapConstructed /\ DriverIdle /\ ConstructIdle /\ QuantizeIdle /\ PrepareIdle /\ ForceIdle /\ FiberIdle /\ StructureIdle

SpecTransition == TransitionProgramInit /\ [][TransitionNext]_vars

(***************************************************************************)
(* Properties of the transitions.                                          *)
(***************************************************************************)
\* The frame index of the previous stage lists no step (or does not exist).
EmptyPrevIndex ==
    load_steps(set_stage(handed[PrevStore(mode)], prev_stage(mode))) = <<>>

\* C10: a transition whose previous stage has no saved frame in its frame index
\* fails with a reported fatal error, before reading any positions and before
\* writing anything to the next stage.
C10_EmptyFrameIndexFails ==
    (mode \in Modes /\ EmptyPrevIndex) =>
        /\ reads = {}
        /\ \A f \in DOMAIN stores :
              /\ stores[f].positions = handed[f].positions
              /\ stores[f].steps = handed[f].steps
        /\ tpc = "exit" => (status = [code |-> 1] /\ stderr # "")

(***************************************************************************)
(* Construction of a driver: the member initialisers load the              *)
(* configuration and the design of the stage from the file, then setup()   *)
(* creates the particles and the force fields.  The design datasets are    *)
(* kept by their row counts; chain i of a design has i beads.              *)
(***************************************************************************)
MaxChains == 2          \* largest number of rows of a design dataset's chain list

ConstructedDrivers == {"anatelophase", "interphase", "prometaphase"}

Metadatas ==
    [chain_ranges : 0..MaxChains,
     kinetochore_beads : -1..(MaxChains + 1),      \* -1: the dataset does not exist
     pole_positions : 0..(MaxChains + 1)]

Settings == [core_mobility : -1..1, kfiber_decay_rate : 0..1, kfiber_length : 0..1]

Loaded(value) == [ok |-> TRUE, value |-> value]

Failed(what) == [ok |-> FALSE, what |-> what]

\* Mutant: the kinetochore beads are taken without comparing the lengths.
load_chains_NoLengthCheck(md) ==
    Loaded([i \in 1..md.chain_ranges |->
              [start |-> ((i - 1) * i) \div 2, end |-> ((i - 1) * i) \div 2 + i,
               kinetochore |-> 0]])

load_chains(md) ==
    LET chains == [i \in 1..md.chain_ranges |->
                     [start |-> ((i - 1) * i) \div 2, end |-> ((i - 1) * i) \div 2 + i,
                      kinetochore |-> 0]]
    IN  IF md.kinetochore_beads # -1
        THEN IF md.kinetochore_beads # Len(chains)
             THEN Failed("chains and kinetochore_beads datasets mismatch")
             ELSE Loaded([i \in 1..Len(chains) |->
                            [chains[i] EXCEPT !.kinetochore = chains[i].start]])
        ELSE Loaded(chains)

\* Chains 2j-1 and 2j (counted from 1) are the target and the sister of pair j.
load_sister_chromatids(md) ==
    [j \in 1..(md.chain_ranges \div 2) |-> <<2 * j - 1, 2 * j>>]

load_pole_positions(md) ==
    IF md.pole_positions # 2
    THEN Failed("unexpected pole_positions shape")
    ELSE Loaded(<<"target_pole", "sister_pole">>)

load_anatelophase_design(md) ==
    LET chains == load_chains(md)
    IN  IF chains.ok THEN Loaded([chains |-> chains.value]) ELSE chains

load_interphase_design(md) ==
    LET chains == load_chains(md)
    IN  IF chains.ok THEN Loaded([chains |-> chains.value]) ELSE chains

load_prometaphase_design(md) ==
    LET chains == load_chains(md)
        poles == load_pole_positions(md)
    IN  IF ~chains.ok THEN chains
        ELSE IF ~poles.ok THEN poles
        ELSE Loaded([chains |-> chains.value,
                     sister_chromatids |-> load_sister_chromatids(md),
                     pole_positions |-> poles.value])

load_design(d, md) ==
    CASE d = "anatelophase" -> load_anatelophase_design(md)
      [] d = "interphase" -> load_interphase_design(md)
      [] d = "prometaphase" -> load_prometaphase_design(md)

NothingBuilt == [particles |-> 0, forcefields |-> {}, kinetochores |-> {}]

\* simulation_driver(store): _config(...), _design(store.load_..._design())
construct ==
    /\ cpc = "initialisers"
    /\ LET loaded_design == load_design(ctor, metadata)
       IN  IF loaded_design.ok
           THEN /\ design' = loaded_design.value
                /\ cpc' = "setup"
                /\ UNCHANGED thrown
           ELSE /\ thrown' = "simulation_store_error"
                /\ cpc' = "failed"
                /\ UNCHANGED design
    /\ UNCHANGED <<ctor, metadata, settings, built, springs>>
    /\ UNCHANGED ctRest

RECURSIVE CountParticles(_)
CountParticles(chains) ==
    IF chains = <<>> THEN 0
    ELSE (Head(chains).end - Head(chains).start) + CountParticles(Tail(chains))

\* bead_mobility / md::scalar(chain.end - chain.start), kept as a fraction
compute_mobility(bead_mobility, chain) ==
    [num |-> bead_mobility, den |-> chain.end - chain.start]

kinetochore_spec(field, chain, cfg) ==
    [field |-> field,
     particle_index |-> chain.kinetochore,
     mobility |-> compute_mobility(cfg.core_mobility, chain),
     decay_rate |-> cfg.kfiber_decay_rate,
     stationary_length |-> cfg.kfiber_length]

\* setup_dragging_forcefield: one kinetochore per chain
setup_dragging_forcefield(dsn, cfg) ==
    {kinetochore_spec("dragging", dsn.chains[i], cfg) : i \in 1..Len(dsn.chains)}

\* setup_kinetochore_forcefield: the target and the sister chain of every pair
setup_kinetochore_forcefield(dsn, cfg) ==
    UNION {{kinetochore_spec("target", dsn.chains[dsn.sister_chromatids[j][1]], cfg),
            kinetochore_spec("sister", dsn.chains[dsn.sister_chromatids[j][2]], cfg)} :
              j \in 1..Len(dsn.sister_chromatids)}

\* setup(), the body of the constructor
setup ==
    /\ cpc = "setup"
    /\ built' = [particles |-> CountParticles(design.chains),
                 forcefields |-> SetupForcefields(ctor),
                 kinetochores |->
                    CASE ctor = "anatelophase" -> setup_dragging_forcefield(design, settings)
                      [] ctor = "prometaphase" ->
                            setup_kinetochore_forcefield(design, settings)
                      [] ctor = "interphase" -> {}]
    /\ cpc' = "constructed"
    /\ UNCHANGED <<ctor, metadata, settings, design, thrown, springs>>
    /\ UNCHANGED ctRest

\* The spring is built with no stationary length.
make_potential_NoLength(spec) ==
    IF spec.mobility.num = 0
    THEN [finite |-> FALSE, num |-> 0, den |-> 1, equilibrium_distance |-> 0]
    ELSE [finite |-> TRUE, num |-> spec.decay_rate * spec.mobility.den,
          den |-> spec.mobility.num, equilibrium_distance |-> 0]

\* spring_constant = decay_rate / mobility; a division by zero gives no finite value
make_potential(spec) ==
    IF spec.mobility.num = 0
    THEN [finite |-> FALSE, num |-> 0, den |-> 1,
          equilibrium_distance |-> spec.stationary_length]
    ELSE [finite |-> TRUE, num |-> spec.decay_rate * spec.mobility.den,
          den |-> spec.mobility.num,
          equilibrium_distance |-> spec.stationary_length]

\* kinetochore_fiber_forcefield::compute_energy of the fields built: every
\* registered spec is turned into a spring potential and evaluated.
compute_energy ==
    /\ cpc = "constructed"
    /\ springs' = {[spec |-> k, potential |-> make_potential(k)] : k \in built.kinetochores}
    /\ cpc' = "evaluated"
    /\ UNCHANGED <<ctor, metadata, settings, design, built, thrown>>
    /\ UNCHANGED ctRest

ConstructInit ==
    /\ ctor \in ConstructedDrivers
    /\ metadata \in Metadatas
    /\ settings \in Settings
    /\ cpc = "initialisers"
    /\ design = [chains |-> <<>>]
    /\ built = NothingBuilt
    /\ thrown = ""
    /\ springs = {}

ConstructNext ==
    \/ construct
    \/ setup
    \/ compute_energy

ConstructProgramInit == ConstructInit /\ ContactMapConstructed /\ DriverIdle /\ TransitionIdle /\ QuantizeIdle /\ PrepareIdle /\ ForceIdle /\ FiberIdle /\ StructureIdle

SpecConstruct == ConstructProgramInit /\ [][ConstructNext]_vars

(***************************************************************************)
(* Properties of driver construction.                                      *)
(***************************************************************************)
KinetochoreMismatch == metadata.kinetochore_beads \notin {-1, metadata.chain_ranges}

PoleMismatch == metadata.pole_positions # 2

\* C11: when the kinetochore_beads dataset exists with a length other than the
\* number of chains, or (prometaphase design) pole_positions does not have
\* exactly 2 rows, construction ends with a simulation_store_error and no
\* particle or force field has been created.
C11_DesignRejected ==
    (ctor \in ConstructedDrivers
       /\ (KinetochoreMismatch \/ (ctor = "prometaphase" /\ PoleMismatch))) =>
        /\ cpc \in {"initialisers", "failed"}
        /\ cpc = "failed" => thrown = "simulation_store_error"
        /\ built = NothingBuilt
        /\ springs = {}

C11_Witness ==
    /\ ctor = "prometaphase"
    /\ cpc = "failed"
    /\ thrown = "simulation_store_error"
    /\ ~KinetochoreMismatch
    /\ PoleMismatch
    /\ built = NothingBuilt

\* C12: a kinetochore-fiber spec whose mobility is <= 0 is rejected at setup as
\* a configuration error; no such spec is registered and none is turned into a
\* spring constant decay_rate / mobility in an energy or force computation.
C12_MobilityRejected ==
    ctor \in ConstructedDrivers =>
        /\ \A k \in built.kinetochores : k.mobility.num > 0
        /\ \A s \in springs : s.spec.mobility.num > 0 /\ s.potential.finite
        /\ (settings.core_mobility <= 0 /\ ctor # "interphase") =>
              cpc \in {"initialisers", "setup", "failed"}

(***************************************************************************)
(* Quantization of stored coordinates.  A finite binary floating-point     *)
(* number is kept exactly, as m * 2^e with m odd, or as zero.  The values  *)
(* drawn have far fewer bits than a double's mantissa, so frexp and ldexp  *)
(* are exact on them, as they are in the program.                          *)
(***************************************************************************)
MaxMantissa == 31
MaxExponent == 1
MaxBits == 3

\* save_positions keeps this many mantissa bits of each coordinate.
fraction_bits == 16

RECURSIVE Pow2(_)
Pow2(k) == IF k <= 0 THEN 1 ELSE 2 * Pow2(k - 1)

\* The number m * 2^e in its unique representation.
RECURSIVE Dyadic(_, _)
Dyadic(m, e) ==
    IF m = 0 THEN [m |-> 0, e |-> 0]
    ELSE IF m % 2 = 0 THEN Dyadic(m \div 2, e + 1)
    ELSE [m |-> m, e |-> e]

\* Number of binary digits of n > 0.
RECURSIVE BitLength(_)
BitLength(n) == IF n <= 0 THEN 0 ELSE 1 + BitLength(n \div 2)

Sign(n) == IF n < 0 THEN -1 ELSE 1

\* std::frexp: value = mant * 2^exp with 0.5 <= |mant| < 1; zero gives (0, 0).
frexp(v) ==
    IF v.m = 0 THEN [mant |-> Dyadic(0, 0), exp |-> 0]
    ELSE LET L == BitLength(Abs(v.m))
         IN  [mant |-> Dyadic(v.m, -L), exp |-> v.e + L]

\* std::ldexp: v * 2^k.
ldexp(v, k) == Dyadic(v.m, v.e + k)

\* Rounding toward zero, which drops the fraction.
nearbyint_TowardZero(v) ==
    IF v.e >= 0 THEN v
    ELSE Dyadic(Sign(v.m) * (Abs(v.m) \div Pow2(-v.e)), 0)

\* std::nearbyint in the default rounding mode, which the program never
\* changes: the nearest integer, a tie going to the even one.
nearbyint(v) ==
    IF v.e >= 0 THEN v
    ELSE LET d == Pow2(-v.e)
             q == Abs(v.m) \div d
             r == Abs(v.m) % d
             n == IF 2 * r > d THEN q + 1
                  ELSE IF 2 * r < d THEN q
                  ELSE IF q % 2 = 0 THEN q ELSE q + 1
         IN  Dyadic(Sign(v.m) * n, 0)

\* A rescaling that is off by one binary place.
quantize_WrongRescale(value, bits) ==
    LET f == frexp(value)
        scaled_mant == nearbyint(ldexp(f.mant, bits))
    IN  ldexp(scaled_mant, f.exp - bits + 1)

quantize(value, bits) ==
    LET f == frexp(value)
        scaled_mant == nearbyint(ldexp(f.mant, bits))
    IN  ldexp(scaled_mant, f.exp - bits)

\* Mantissas whose rounding to fraction_bits bits is inexact, next to the
\* powers of two where the scaled mantissa can round up to 2^bits.
WideMantissas ==
    UNION {{Pow2(fraction_bits) + k, Pow2(fraction_bits + 1) - k, Pow2(fraction_bits + 1) + k} : k \in 1..3}

Mantissas == (0..MaxMantissa) \cup WideMantissas

Scalars ==
    {Dyadic(s * m, e) : s \in {-1, 1}, m \in Mantissas, e \in (-MaxExponent)..MaxExponent}

Widths == (1..MaxBits) \cup {fraction_bits}

QuantizeInit ==
    /\ scalar \in Scalars
    /\ width \in Widths
    /\ qpc = "input"
    /\ quantized = Dyadic(0, 0)
    /\ requantized = Dyadic(0, 0)

\* A coordinate is quantized on its way into the file.
quantize_value ==
    /\ qpc = "input"
    /\ quantized' = quantize(scalar, width)
    /\ qpc' = "once"
    /\ UNCHANGED <<scalar, width, requantized>>
    /\ UNCHANGED qzRest

\* A coordinate read back from the file is quantized again when re-saved.
quantize_again ==
    /\ qpc = "once"
    /\ requantized' = quantize(quantized, width)
    /\ qpc' = "twice"
    /\ UNCHANGED <<scalar, width, quantized>>
    /\ UNCHANGED qzRest

QuantizeNext ==
    \/ quantize_value
    \/ quantize_again

QuantizeProgramInit == QuantizeInit /\ ContactMapConstructed /\ DriverIdle /\ TransitionIdle /\ ConstructIdle /\ PrepareIdle /\ ForceIdle /\ FiberIdle /\ StructureIdle

SpecQuantize == QuantizeProgramInit /\ [][QuantizeNext]_vars

(***************************************************************************)
(* Properties of quantization.                                             *)
(***************************************************************************)
\* v as a multiple of 2^e0, for e0 no greater than v's exponent.
Scaled(v, e0) == IF v.m = 0 THEN 0 ELSE v.m * Pow2(v.e - e0)

Min(S) == CHOOSE a \in S : \A b \in S : a <= b

\* The place of the last mantissa bit quantize keeps of v.
UnitExponent(v, b) == frexp(v).exp - b

\* The scaled mantissa of the value was rounded up to 2^bits.
RoundedUpToPower ==
    /\ Abs(quantized.m) = 1
    /\ Abs(scalar.m) # 1

\* C13: quantizing an already quantized value changes nothing, for every
\* finite value and bit width, the width of save_positions included.
C13_QuantizeIdempotent == qpc = "twice" => requantized = quantized

\* A value was changed by the first quantization, its mantissa rounding up
\* to the next power of two, and the second quantization has run.
C13_Witness ==
    /\ qpc = "twice"
    /\ quantized # scalar
    /\ RoundedUpToPower
    /\ width = fraction_bits

\* C14 as stated: the result is the value with the bits below the leading
\* ones zeroed, so it never exceeds the value in magnitude.
C14_NeverExceeds ==
    qpc # "input" =>
        LET e0 == Min({scalar.e, quantized.e})
        IN  Abs(Scaled(quantized, e0)) <= Abs(Scaled(scalar, e0))

\* C14: quantize rounds the value to the nearest number with at most `bits`
\* significant mantissa bits: the sign is kept, every bit below the kept ones
\* is zero, the result is within half a unit of the last kept bit of the
\* value, and it is the function of value and width alone.
C14_RoundsToNearest ==
    qpc # "input" =>
        LET u == UnitExponent(scalar, width)
            e0 == Min({scalar.e, quantized.e, u - 1})
            q == Scaled(quantized, e0)
            x == Scaled(scalar, e0)
        IN  /\ quantized = quantize(scalar, width)
            /\ (q > 0) = (x > 0)
            /\ (q < 0) = (x < 0)
            /\ q % Pow2(u - e0) = 0
            /\ 2 * Abs(q - x) <= Pow2(u - e0)

\* The quantized value is larger in magnitude than the value it came from.
C14_Witness ==
    /\ qpc = "once"
    /\ LET e0 == Min({scalar.e, quantized.e})
       IN  Abs(Scaled(quantized, e0)) > Abs(Scaled(scalar, e0))

(***************************************************************************)
(* Preparation of the trajectory file: init_pipeline::run defines the      *)
(* chains of every stage from the chain definitions.  Indexes are the      *)
(* program's zero-based ones; particle i is element i + 1 of a sequence.   *)
(* The a and b factors of a bead play no part in the chain layout and are  *)
(* left out.                                                               *)
(***************************************************************************)
MaxBeads == 4
MaxCoarseGraining == 2
MaxNucleolusBeads == 1

\* The comma-delimited tag strings of the beads, as their lists of fields.
BeadTags == {<<"A">>, <<"B", "cen">>, <<"anor">>}

\* chain.name of the chain defined at position k; the suffix is what
\* define_prometaphase_chains appends.
ChainName(k) == [chr |-> k, suffix |-> ""]

\* Every list of k - from + 1 bead lists holding at most budget beads in all.
RECURSIVE BeadLists(_, _, _)
BeadLists(from, k, budget) ==
    IF from > k THEN {<<>>}
    ELSE UNION {UNION {{<<beads>> \o rest : rest \in BeadLists(from + 1, k, budget - n)}
                       : beads \in [1..n -> [tags : BeadTags]]}
                : n \in 0..budget}

ChainDefinitions ==
    UNION {{[i \in 1..k |-> [name |-> ChainName(i), beads |-> lists[i]]]
            : lists \in BeadLists(1, k, MaxBeads)}
           : k \in 0..MaxChains}

PrepareConfigs ==
    [coarse_graining : 1..MaxCoarseGraining, nucleolus_bead_count : 0..MaxNucleolusBeads]

check_tag(tags, tag) == \E i \in 1..Len(tags) : tags[i] = tag

\* The two NOR tags name each other's type.
tag_type_map_NorsSwapped ==
    << <<"anor", "silent_nor">>, <<"bnor", "active_nor">>, <<"cen", "centromere">>,
       <<"A", "a">>, <<"B", "b">>, <<"u", "u">> >>

tag_type_map ==
    << <<"anor", "active_nor">>, <<"bnor", "silent_nor">>, <<"cen", "centromere">>,
       <<"A", "a">>, <<"B", "b">>, <<"u", "u">> >>

\* The type of the first entry of tag_type_map whose tag the bead carries.
bead_type(tags) ==
    LET hits == {i \in 1..Len(tag_type_map) : check_tag(tags, tag_type_map[i][1])}
    IN  IF hits = {} THEN "unknown"
        ELSE tag_type_map[CHOOSE i \in hits : \A j \in hits : i <= j][2]

nullopt == [engaged |-> FALSE, index |-> 0]
Engaged(i) == [engaged |-> TRUE, index |-> i]

NothingDefined == [particles |-> <<>>, chains |-> <<>>]

RECURSIVE DefineChainsFrom(_, _, _)
DefineChainsFrom(defs, k, acc) ==
    IF k > Len(defs) THEN acc
    ELSE LET chain == defs[k]
             chain_start == Len(acc.particles)
             chain_end == chain_start + Len(chain.beads)
             types == [j \in 1..Len(chain.beads) |-> bead_type(chain.beads[j].tags)]
             indexes == [j \in 1..Len(chain.beads) |-> chain_start + j - 1]
             IsNor(i) == types[i - chain_start + 1] = "active_nor"
         IN  DefineChainsFrom(defs, k + 1,
                 [particles |-> acc.particles \o types,
                  nor_indices |-> acc.nor_indices \o SelectSeq(indexes, IsNor),
                  chains |-> Append(acc.chains,
                                    [name |-> chain.name, start |-> chain_start,
                                     end |-> chain_end, kinetochore |-> nullopt]),
                  nucleolar_bonds |-> acc.nucleolar_bonds])

PrepareInit ==
    /\ _chains \in ChainDefinitions
    /\ _prepare_config \in PrepareConfigs
    /\ ppc = "define_chains"
    /\ _interphase = [particles |-> <<>>, nor_indices |-> <<>>, chains |-> <<>>,
                      nucleolar_bonds |-> <<>>]
    /\ _anatelophase = NothingDefined
    /\ _prometaphase = [particles |-> <<>>, chains |-> <<>>, sister_chromatids |-> <<>>]

define_chains ==
    /\ ppc = "define_chains"
    /\ _interphase' = DefineChainsFrom(_chains, 1, _interphase)
    /\ ppc' = "define_nucleolar_particles"
    /\ UNCHANGED <<_chains, _prepare_config, _anatelophase, _prometaphase>>
    /\ UNCHANGED ppRest

define_nucleolar_particles ==
    /\ ppc = "define_nucleolar_particles"
    /\ LET count == _prepare_config.nucleolus_bead_count
           first_index == Len(_interphase.particles)
           total == Len(_interphase.nor_indices) * count
       IN  _interphase' =
               [_interphase EXCEPT
                   !.particles = @ \o [t \in 1..total |-> "nucleolus"],
                   !.nucleolar_bonds =
                       @ \o [t \in 1..total |->
                                <<_interphase.nor_indices[((t - 1) \div count) + 1],
                                  first_index + t - 1>>]]
    /\ ppc' = "define_anatelophase_chains"
    /\ UNCHANGED <<_chains, _prepare_config, _anatelophase, _prometaphase>>
    /\ UNCHANGED ppRest

\* The centromeric region [start, end) of a chain: from its first to its last
\* centromere bead, or the whole chain when it has none.
centromere_range(particles, assign) ==
    LET cen == {i \in assign.start..(assign.end - 1) : particles[i + 1] = "centromere"}
    IN  IF cen = {} THEN <<assign.start, assign.end>>
        ELSE <<CHOOSE i \in cen : \A j \in cen : i <= j,
               (CHOOSE i \in cen : \A j \in cen : j <= i) + 1>>

RECURSIVE DefineAnatelophaseFrom(_, _, _, _)
DefineAnatelophaseFrom(inter, coarse_graining, chain_index, acc) ==
    IF chain_index > Len(inter.chains) THEN acc
    ELSE LET assign == inter.chains[chain_index]
             length == assign.end - assign.start
             coarse_length == length \div coarse_graining
             coarse_chain_start == Len(acc.particles)
             coarse_chain_end == coarse_chain_start + coarse_length
             range == centromere_range(inter.particles, assign)
             centromere_midpoint == (range[1] + range[2]) \div 2
             kinetochore_offset == (centromere_midpoint - assign.start) \div coarse_graining
             kinetochore_index ==
                 IF kinetochore_offset < coarse_length
                 THEN Engaged(coarse_chain_start + kinetochore_offset)
                 ELSE nullopt
             types == [bin \in 1..coarse_length |->
                          IF bin - 1 = kinetochore_offset THEN "kinetochore" ELSE "arm"]
         IN  DefineAnatelophaseFrom(inter, coarse_graining, chain_index + 1,
                 [particles |-> acc.particles \o types,
                  chains |-> Append(acc.chains,
                                    [name |-> assign.name, start |-> coarse_chain_start,
                                     end |-> coarse_chain_end,
                                     kinetochore |-> kinetochore_index])])

define_anatelophase_chains ==
    /\ ppc = "define_anatelophase_chains"
    /\ _anatelophase' =
           DefineAnatelophaseFrom(_interphase, _prepare_config.coarse_graining, 1, _anatelophase)
    /\ ppc' = "define_prometaphase_chains"
    /\ UNCHANGED <<_chains, _prepare_config, _interphase, _prometaphase>>
    /\ UNCHANGED ppRest

\* What reading a disengaged std::optional<std::size_t> may yield: any
\* std::size_t, of which the least and one beyond every chain are kept.
Unspecified == {0, 2 * MaxBeads}

\* The anatelophase chains whose kinetochore is disengaged.
Disengaged(anatelo) == {i \in 1..Len(anatelo.chains) : ~anatelo.chains[i].kinetochore.engaged}

\* *anatelo_assign.kinetochore, read[i] standing for what a disengaged one yields.
Dereference(anatelo, read, i) ==
    IF anatelo.chains[i].kinetochore.engaged
    THEN anatelo.chains[i].kinetochore.index
    ELSE read[i]

\* The chains and particles the second loop appends for chains 1..upto.  The
\* sums are those of std::size_t: an offset below zero wraps around and the
\* sum with the start wraps back.
\* A target chromatid that starts where the anatelophase chain starts.
target_start_NotDoubled(anatelo_assign) == anatelo_assign.start

\* Each anatelophase chain is laid out twice, so its start doubles.
target_start(anatelo_assign) == anatelo_assign.start * 2

RECURSIVE DefinePrometaphaseFrom(_, _, _, _, _)
DefinePrometaphaseFrom(anatelo, read, i, upto, acc) ==
    IF i > upto THEN acc
    ELSE LET anatelo_assign == anatelo.chains[i]
             chain_length == anatelo_assign.end - anatelo_assign.start
             kinetochore_offset == Dereference(anatelo, read, i) - anatelo_assign.start
             target_end == target_start(anatelo_assign) + chain_length
             target_kinetochore == target_start(anatelo_assign) + kinetochore_offset
             sister_start == target_end
             sister_end == sister_start + chain_length
             sister_kinetochore == sister_start + kinetochore_offset
             copied == SubSeq(anatelo.particles, anatelo_assign.start + 1, anatelo_assign.end)
         IN  DefinePrometaphaseFrom(anatelo, read, i + 1, upto,
                 [acc EXCEPT
                     !.chains = @ \o
                         <<[name |-> anatelo_assign.name, start |-> target_start(anatelo_assign),
                            end |-> target_end, kinetochore |-> Engaged(target_kinetochore)],
                           [name |-> [anatelo_assign.name EXCEPT !.suffix = "-copy"],
                            start |-> sister_start, end |-> sister_end,
                            kinetochore |-> Engaged(sister_kinetochore)]>>,
                     !.particles = @ \o copied \o copied])

sister_pairs(n) == [i \in 1..n |-> <<2 * (i - 1), 2 * (i - 1) + 1>>]

define_prometaphase_chains ==
    /\ ppc = "define_prometaphase_chains"
    /\ LET n == Len(_anatelophase.chains)
           bad == Disengaged(_anatelophase)
           paired == [_prometaphase EXCEPT !.sister_chromatids = sister_pairs(n)]
       IN  \/ \E read \in [bad -> Unspecified] :
                  /\ _prometaphase' = DefinePrometaphaseFrom(_anatelophase, read, 1, n, paired)
                  /\ ppc' = "defined"
           \/ /\ bad # {}
              /\ LET first_bad == CHOOSE i \in bad : \A j \in bad : i <= j
                 IN  _prometaphase' =
                         DefinePrometaphaseFrom(_anatelophase, <<>>, 1, first_bad - 1, paired)
              /\ ppc' = "killed"
    /\ UNCHANGED <<_chains, _prepare_config, _interphase, _anatelophase>>
    /\ UNCHANGED ppRest

PrepareNext ==
    \/ define_chains
    \/ define_nucleolar_particles
    \/ define_anatelophase_chains
    \/ define_prometaphase_chains

PrepareProgramInit == PrepareInit /\ ContactMapConstructed /\ DriverIdle /\ TransitionIdle /\ ConstructIdle /\ QuantizeIdle /\ ForceIdle /\ FiberIdle /\ StructureIdle

SpecPrepare == PrepareProgramInit /\ [][PrepareNext]_vars

(***************************************************************************)
(* Properties of the chain layout.                                         *)
(***************************************************************************)
Range(assign) == assign.start..(assign.end - 1)

\* The ranges are well-formed, follow one another from index 0 and cover
\* exactly the indexes below count, none twice.
Partitions(chains, count) ==
    /\ \A i \in 1..Len(chains) : chains[i].start <= chains[i].end
    /\ \A i \in 1..Len(chains) :
           chains[i].start = IF i = 1 THEN 0 ELSE chains[i - 1].end
    /\ \A i, j \in 1..Len(chains) : i # j => Range(chains[i]) \cap Range(chains[j]) = {}
    /\ UNION {Range(chains[i]) : i \in 1..Len(chains)} = 0..(count - 1)

\* Number of interphase particles that are beads of a chain.
ChainBeadCount(inter) ==
    Cardinality({i \in 1..Len(inter.particles) : inter.particles[i] # "nucleolus"})

\* Chain 2i - 1 is anatelophase chain i laid out as the target chromatid,
\* chain 2i its sister of the same length, named with the suffix -copy.
SistersFollow(anatelo, prometa) ==
    /\ Len(prometa.chains) = 2 * Len(anatelo.chains)
    /\ Len(prometa.particles) = 2 * Len(anatelo.particles)
    /\ \A i \in 1..Len(anatelo.chains) :
           LET a == anatelo.chains[i]
               t == prometa.chains[2 * i - 1]
               c == prometa.chains[2 * i]
           IN  /\ t.name = a.name
               /\ c.name = [a.name EXCEPT !.suffix = "-copy"]
               /\ t.end - t.start = a.end - a.start
               /\ c.end - c.start = a.end - a.start
               /\ c.start = t.end

InterphaseDefined == ppc \notin {"idle", "define_chains"}
AnatelophaseDefined == ppc \in {"define_prometaphase_chains", "defined", "killed"}
PrometaphaseDefined == ppc = "defined"

\* C15: the chain ranges of each stage partition the stage's chain particles:
\* start <= end, contiguous from index 0, pairwise disjoint; the prometaphase
\* ranges cover twice the anatelophase particle count, each chain followed by
\* its -copy sister of equal length.
C15_RangesPartition ==
    /\ InterphaseDefined => Partitions(_interphase.chains, ChainBeadCount(_interphase))
    /\ AnatelophaseDefined => Partitions(_anatelophase.chains, Len(_anatelophase.particles))
    /\ PrometaphaseDefined =>
           /\ Partitions(_prometaphase.chains, Len(_prometaphase.particles))
           /\ SistersFollow(_anatelophase, _prometaphase)

\* All stages are defined from two chains that keep beads after coarse-graining
\* by more than one, one of them carrying nucleolar particles.
C15_Witness ==
    /\ PrometaphaseDefined
    /\ _prepare_config.coarse_graining > 1
    /\ Len(_anatelophase.chains) = 2
    /\ \A i \in 1..2 : _anatelophase.chains[i].end > _anatelophase.chains[i].start
    /\ Len(_interphase.particles) > ChainBeadCount(_interphase)

\* The chain has exactly one kinetochore bead, the one its kinetochore index
\* names, and the index lies within the chain's range.
OneKinetochoreWithin(stage, assign) ==
    /\ assign.kinetochore.engaged
    /\ assign.kinetochore.index \in Range(assign)
    /\ {i \in Range(assign) : stage.particles[i + 1] = "kinetochore"} = {assign.kinetochore.index}

\* C16 as stated: every anatelophase and prometaphase chain has exactly one
\* kinetochore bead, at an index within its own range, whatever the chain
\* length, the coarse-graining factor and the place of the centromere.
C16_OneKinetochorePerChain ==
    /\ ppc # "killed"
    /\ AnatelophaseDefined =>
           \A i \in 1..Len(_anatelophase.chains) :
               OneKinetochoreWithin(_anatelophase, _anatelophase.chains[i])
    /\ PrometaphaseDefined =>
           \A i \in 1..Len(_prometaphase.chains) :
               OneKinetochoreWithin(_prometaphase, _prometaphase.chains[i])

\* A chain that keeps a bead after coarse-graining has no kinetochore.
KinetochoreMissing ==
    /\ AnatelophaseDefined
    /\ \E i \in 1..Len(_anatelophase.chains) :
           /\ _anatelophase.chains[i].end > _anatelophase.chains[i].start
           /\ ~_anatelophase.chains[i].kinetochore.engaged

(***************************************************************************)
(* The hand-over from a driver to the transition that follows it.          *)
(***************************************************************************)
\* The transition that reads what driver d wrote.
FollowingTransition(d) ==
    CASE d = "anatelophase" -> "interphase"
      [] d = "interphase" -> "prometaphase"
      [] d = "prometaphase" -> "cycle"

TransitionedDrivers == {"anatelophase", "interphase", "prometaphase"}

\* The step counts store.load_steps().back() can yield on the finished
\* driver's file, the stage set to the one the following transition reads.
LastListedSteps ==
    LET st == set_stage(_store, prev_stage(FollowingTransition(driver)))
    IN  Back(load_steps(st))

\* The structure load_positions returns for a listed step.
StructureRead(k) ==
    load_positions(set_stage(_store, prev_stage(FollowingTransition(driver))), k)

\* C17 as stated: the structure a transition reads is the one after the last
\* integration step of the previous stage, stored under the stage's
\* configured step count, whatever the step count and the sampling interval.
C17_TransitionReadsFinal ==
    (driver \in TransitionedDrivers /\ pc = "finished") =>
        \A b \in LastListedSteps :
            /\ "value" \in DOMAIN b
            /\ b.value = StageSteps(driver, _config, prev_stage(FollowingTransition(driver)))
            /\ StructureRead(b.value) = _system.positions

\* The last listed step is the last multiple of the sampling interval, which
\* lies before the stage's final step.
LastFrameBeforeFinalStep ==
    /\ driver \in TransitionedDrivers
    /\ pc = "finished"
    /\ \E b \in LastListedSteps :
           /\ "value" \in DOMAIN b
           /\ b.value < StageSteps(driver, _config, prev_stage(FollowingTransition(driver)))
           /\ StructureRead(b.value).moved < _system.positions.moved

(***************************************************************************)
(* Order of the draws from the driver's random generator.                  *)
(***************************************************************************)
\* The driver generates the initial positions: the earlier anatelophase
\* driver always does, the later one when the file holds no anaphase step 0.
PositionsGenerated(d, file) ==
    \/ d = "anatelophase_legacy"
    \/ d = "anatelophase" /\ <<"anaphase", to_string(0)>> \notin DOMAIN file.positions

\* The draws of a complete run, fixed by the driver and the file it is given.
DrawSchedule(d, file) ==
    (IF PositionsGenerated(d, file) THEN <<"normal_vector">> ELSE <<>>) \o
    [i \in 1..Len(DriverStages(d)) |-> "seed"]

IsPrefix(a, b) == Len(a) <= Len(b) /\ a = SubSeq(b, 1, Len(a))

SeedCount(draws) == Cardinality({i \in 1..Len(draws) : draws[i] = "seed"})

\* A seed is drawn in this step.
SeedDrawn == _random' # _random /\ _random'[Len(_random')] = "seed"

\* C18: the draws follow one order fixed by the driver and the store content:
\* the initial-position draws, if positions are generated, come before the
\* first seed; every stage draws exactly one seed, in stage order, in the step
\* that starts its integration run.
C18_DrawOrder ==
    /\ [](driver \in Drivers =>
            /\ IsPrefix(_random, DrawSchedule(driver, input))
            /\ SeedCount(_random) = Cardinality({s \in Stages : calls[s] # <<>>})
            /\ (\A s \in StagesOf(driver) : StageCompleted(s)) =>
                   _random = DrawSchedule(driver, input))
    /\ [][SeedDrawn =>
            /\ Len(_random') = Len(_random) + 1
            /\ run_stage' = DriverStages(driver)[SeedCount(_random')]
            /\ pc' = "integrate"
            /\ step' = 0]_vars

\* The anatelophase driver generated its positions and ran both stages.
C18_Witness ==
    /\ driver = "anatelophase"
    /\ pc = "finished"
    /\ _random = <<"normal_vector", "seed", "seed">>
    /\ _config.anaphase_steps > 0
    /\ _config.telophase_steps > 0

(***************************************************************************)
(* Logging.  The run is compared, callback by callback, with the quiet run *)
(* that has no logging statements: every run with some logging interval    *)
(* agreeing with the quiet run, two runs that differ in the logging        *)
(* interval agree with each other.  A progress sink that discards its      *)
(* lines changes clog only.                                                *)
(***************************************************************************)
\* A context without the mean energy, which is refreshed before it is saved.
Lasting(ctx) == [ctx EXCEPT !.mean_energy = -1]

\* C19: logging does not influence results: after every callback the store of
\* the run (positions, contexts with their mean energy, contact maps, frame
\* indexes) equals that of the run without logging, and so do the contact map
\* and the context the next callback starts from, the mean energy between two
\* samplings aside; the seeds drawn are those of the schedule, which names no
\* logging interval.
C19_LoggingHasNoEffect ==
    driver \in Drivers =>
        /\ quiet.store = quiet.actual
        /\ quiet.contact_map = _contact_map
        /\ Lasting(quiet.context) = Lasting(_context)
        /\ IsPrefix(_random, DrawSchedule(driver, input))

\* A progress line was printed at a step that was not sampled, leaving the
\* run with a mean energy the quiet run does not have, and a later step was
\* sampled with its context.
C19_Witness ==
    /\ driver = "interphase"
    /\ pc = "finished"
    /\ \E i \in 1..Len(clog) :
           /\ clog[i].stage = "interphase"
           /\ clog[i].step % _config.sampling_interval # 0
           /\ \E k \in (clog[i].step + 1)..MaxSteps :
                  <<"interphase", to_string(k)>> \in DOMAIN _store.context
    /\ \E j \in 1..Len(clog) : clog[j].stage = "relaxation"

(***************************************************************************)
(* kinetochore_fiber_forcefield::compute_force.  Points and vectors are    *)
(* kept by their coordinate on the axis through the pole; the force buffer *)
(* holds what the fields evaluated before this one wrote into it.          *)
(***************************************************************************)
MaxKinetochores == 2

\* The specs add_kinetochore can be given: any particle, a mobility
\* core_mobility / chain length, a decay rate and a stationary length.
KinetochoreSpecs ==
    [particle_index : Particles,
     mobility : {[num |-> 1, den |-> d] : d \in 1..2},
     decay_rate : {1},
     stationary_length : 0..1]

\* Pole positions on either side of all particles.
PolePositions == {0, NumParticles + MaxCoord + 1}

\* md::spring_potential::evaluate_force: the harmonic force of the spring
\* u = K/2 (|r| - b)^2 on the particle at r, restoring |r| to b.
evaluate_force(potential, r) ==
    LET distance == Abs(r)
        direction == IF r > 0 THEN 1 ELSE IF r < 0 THEN -1 ELSE 0
    IN  -((potential.num * (distance - potential.equilibrium_distance)) \div potential.den)
        * direction

\* The entry is replaced by the force instead of being added to.
accumulate_force_Overwrite(buffer, i, f) == [buffer EXCEPT ![i] = f]

\* forces[i] += f
accumulate_force(buffer, i, f) == [buffer EXCEPT ![i] = @ + f]

\* The loop of compute_force over registered[from..], on buffer.
RECURSIVE ComputeForceFrom(_, _, _, _, _)
ComputeForceFrom(registered, from, pole, positions, buffer) ==
    IF from > Len(registered) THEN buffer
    ELSE LET spec == registered[from]
             r == positions[spec.particle_index] - pole
         IN  ComputeForceFrom(registered, from + 1, pole, positions,
                 accumulate_force(buffer, spec.particle_index,
                                  evaluate_force(make_potential(spec), r)))

ForceInit ==
    /\ _kinetochores = <<>>
    /\ _pole_position \in PolePositions
    /\ \E shift \in 1..MaxCoord : system_positions = [i \in Particles |-> i + shift]
    /\ given_forces \in [Particles -> 0..1]
    /\ forces = given_forces
    /\ fpc = "setup"

add_kinetochore ==
    /\ fpc = "setup"
    /\ Len(_kinetochores) < MaxKinetochores
    /\ \E spec \in KinetochoreSpecs : _kinetochores' = Append(_kinetochores, spec)
    /\ UNCHANGED <<_pole_position, system_positions, forces, given_forces, fpc>>
    /\ UNCHANGED fcRest

compute_force ==
    /\ fpc = "setup"
    /\ forces' = ComputeForceFrom(_kinetochores, 1, _pole_position, system_positions, forces)
    /\ fpc' = "computed"
    /\ UNCHANGED <<_kinetochores, _pole_position, system_positions, given_forces>>
    /\ UNCHANGED fcRest

ForceNext ==
    \/ add_kinetochore
    \/ compute_force

ForceProgramInit == ForceInit /\ ContactMapConstructed /\ DriverIdle /\ TransitionIdle /\ ConstructIdle /\ QuantizeIdle /\ PrepareIdle /\ FiberIdle /\ StructureIdle

SpecForce == ForceProgramInit /\ [][ForceNext]_vars

(***************************************************************************)
(* Properties of compute_force.                                            *)
(***************************************************************************)
\* The spring force of registered kinetochore j at the current positions.
SpringForce(j) ==
    evaluate_force(make_potential(_kinetochores[j]),
                   system_positions[_kinetochores[j].particle_index] - _pole_position)

RECURSIVE SumOver(_, _)
SumOver(F(_), S) ==
    IF S = {} THEN 0
    ELSE LET j == CHOOSE j \in S : TRUE IN F(j) + SumOver(F, S \ {j})

\* The registrations that name particle i.
RegisteredAt(i) == {j \in 1..Len(_kinetochores) : _kinetochores[j].particle_index = i}

\* C20: compute_force adds to forces[particle_index] the spring force of each
\* registered kinetochore, the contributions of one particle adding up on
\* top of what the buffer held; the entry of a particle that is no
\* kinetochore is left as it was; positions, pole and the list of
\* kinetochores are not modified.
C20_ForceAccumulates ==
    /\ [](fpc = "computed" =>
            \A i \in Particles :
                forces[i] = given_forces[i] + SumOver(SpringForce, RegisteredAt(i)))
    /\ [][fpc' = "computed" /\ fpc # "computed" =>
            /\ system_positions' = system_positions
            /\ _kinetochores' = _kinetochores
            /\ _pole_position' = _pole_position]_vars

\* A particle registered twice, with forces that do not cancel, carried a
\* force from another field, while another particle is no kinetochore.
C20_Witness ==
    /\ fpc = "computed"
    /\ \E i \in Particles :
           /\ Cardinality(RegisteredAt(i)) = 2
           /\ given_forces[i] # 0
           /\ \A j \in RegisteredAt(i) : SpringForce(j) # 0
           /\ forces[i] # given_forces[i]
    /\ \E i \in Particles : RegisteredAt(i) = {} /\ given_forces[i] # 0

(***************************************************************************)
(* One particle under a kinetochore fiber field alone, integrated at zero  *)
(* temperature.  Positions lie on the axis through the pole, in units of   *)
(* 1 / FiberGrid so that every step of the runs below is exact.            *)
(***************************************************************************)
MaxFiberSteps == 3

\* Lengths are multiples of the grid, which a step with a halved timestep
\* divides by two at most.
FiberGrid == Pow2(MaxFiberSteps)

FiberLengths == {FiberGrid * k : k \in 0..3}

\* The spec registered for particle 1: mobility core_mobility / chain length,
\* any decay rate (0 is the default of kinetochore_spec).
FiberSpecs ==
    [particle_index : {1},
     mobility : {[num |-> 1, den |-> d] : d \in 1..2},
     decay_rate : 0..2,
     stationary_length : {FiberGrid * k : k \in 0..2}]

FiberTimesteps == {[num |-> n, den |-> 2] : n \in 1..3}

\* md::simulate_brownian_dynamics, one step of one particle at temperature 0:
\* x(t + dt) = x(t) + mobility * F * dt, the noise term sqrt(2 mobility T dt)
\* being zero.
brownian_step(x, mobility, force, timestep) ==
    x + (mobility * force * timestep.num) \div timestep.den

\* The force buffer of a one-particle system after compute_force of the
\* field alone: cleared, then the spring force of the spec added.
fiber_force(spec, pole, x) ==
    ComputeForceFrom(<<spec>>, 1, pole, <<x>>, <<0>>)[1]

FiberInit ==
    /\ fiber_spec \in FiberSpecs
    /\ fiber_pole \in {0, 5}
    /\ \E d \in FiberLengths, side \in {-1, 1} :
           fiber_particle = [position |-> fiber_pole + side * d, mobility |-> 1]
    /\ fiber_timestep \in FiberTimesteps
    /\ fiber_step = 0

\* One integration step: forces are computed fresh from the current position
\* and the particle is moved.
fiber_integrate ==
    /\ fiber_step >= 0
    /\ fiber_step < MaxFiberSteps
    /\ fiber_particle' =
           [fiber_particle EXCEPT !.position =
               brownian_step(@, fiber_particle.mobility,
                             fiber_force(fiber_spec, fiber_pole, fiber_particle.position),
                             fiber_timestep)]
    /\ fiber_step' = fiber_step + 1
    /\ UNCHANGED <<fiber_spec, fiber_pole, fiber_timestep>>
    /\ UNCHANGED fbRest

FiberNext == fiber_integrate

FiberProgramInit == FiberInit /\ ContactMapConstructed /\ DriverIdle /\ TransitionIdle /\ ConstructIdle /\ QuantizeIdle /\ PrepareIdle /\ ForceIdle /\ StructureIdle

SpecFiber == FiberProgramInit /\ [][FiberNext]_vars

(***************************************************************************)
(* Properties of the fiber relaxation.                                     *)
(***************************************************************************)
\* The particle's distance from the pole.
FiberDistance == Abs(fiber_particle.position - fiber_pole)

\* distance - stationary_length
FiberDeviation == FiberDistance - fiber_spec.stationary_length

\* The force on the particle along the outward direction from the pole.
FiberOutwardForce ==
    fiber_force(fiber_spec, fiber_pole, fiber_particle.position)
        * Sign(fiber_particle.position - fiber_pole)

\* timestep * particle mobility * decay_rate / spec mobility, the fraction of
\* the deviation one step removes, as numerator and denominator.
FiberGain ==
    [num |-> fiber_timestep.num * fiber_particle.mobility * fiber_spec.decay_rate * fiber_spec.mobility.den,
     den |-> fiber_timestep.den * fiber_spec.mobility.num]

\* The step is small enough: 0 < gain < 2.
FiberStable == 0 < FiberGain.num /\ FiberGain.num < 2 * FiberGain.den

FiberForceRestores ==
    /\ (FiberOutwardForce = 0) = (FiberDeviation = 0)
    /\ FiberDeviation > 0 => FiberOutwardForce < 0
    /\ FiberDeviation < 0 => FiberOutwardForce > 0

\* C21 as stated: whatever the timestep, the decay rate and the position, the
\* force is zero exactly at distance L and restoring elsewhere, and every
\* integration step reduces |distance - L| unless it is already zero.
C21_EveryStepReduces ==
    /\ [](fiber_step >= 0 => FiberForceRestores)
    /\ [][fiber_step >= 0 /\ FiberDeviation # 0 => Abs(FiberDeviation') < Abs(FiberDeviation)]_vars

\* C21: off the pole and with a positive decay rate, the force is zero exactly
\* at distance L, toward the pole beyond L and away from it below L; with
\* 0 < timestep * mobility of the particle * decay_rate / mobility of the
\* spec < 2 a step taken off the pole reduces |distance - L|, and a particle
\* at distance L stays there.
C21_StableStepReduces ==
    /\ [](fiber_step >= 0 /\ FiberDistance > 0 /\ fiber_spec.decay_rate > 0 => FiberForceRestores)
    /\ [][fiber_step >= 0 /\ FiberStable /\ FiberDistance > 0 =>
              /\ FiberDeviation # 0 => Abs(FiberDeviation') < Abs(FiberDeviation)
              /\ FiberDeviation = 0 => FiberDeviation' = 0]_vars

\* A particle that started beyond L and one that started below L, each moved
\* MaxFiberSteps times with a gain below 1 and still short of L.
C21_Witness ==
    /\ fiber_step = MaxFiberSteps
    /\ FiberStable
    /\ FiberGain.num < FiberGain.den
    /\ FiberDeviation # 0
    /\ Abs(FiberDeviation) < FiberGrid

(***************************************************************************)
(* The contact distance of the interphase contact map.  It is set by       *)
(* update_core_scale at the end of a callback and read by the update of    *)
(* the next one; contact_map starts with _contact_distance = 0, which      *)
(* setup_context does not touch.                                           *)
(***************************************************************************)
\* Every contact-map update made so far.
UpdatesMade == _contact_map.made

\* The distance of update u is contactmap_distance times the core_scale the
\* context held: the two were evaluated at the same time, or
\* contactmap_distance is 0 and so are both.
Configured(u) == u.distance = u.core_scale \/ _config.contactmap_distance = 0

\* C22: every update of the interphase run, the one at step 0 included,
\* searched with contactmap_distance times the core_scale the context held
\* at that moment.
C22_ConfiguredDistance ==
    driver = "interphase" => \A u \in UpdatesMade : Configured(u)

\* From the second callback on the distance is the one update_core_scale set
\* from the scale the context still holds.
LaterUpdatesConfigured ==
    driver = "interphase" =>
        \A u \in UpdatesMade : u.step > 0 => Configured(u) /\ u.distance = u.step - 1

\* The update of step 0 was made before any distance was set.
FirstUpdateUnset ==
    /\ driver = "interphase"
    /\ \E u \in UpdatesMade : u.step = 0 /\ ~Configured(u)

(***************************************************************************)
(* The contact maps the interphase stage saves.  A contact map is kept by  *)
(* the updates that went into it.                                          *)
(***************************************************************************)
\* The sampling steps of the interphase stage whose frame number is a
\* multiple of contactmap_output_window.
WindowSteps ==
    {s \in 0.._config.steps :
        /\ s % _config.sampling_interval = 0
        /\ (s \div _config.sampling_interval) % _config.contactmap_output_window = 0}

\* The update steps in (s - sampling_interval * contactmap_output_window, s]
WindowUpdates(s) ==
    {u \in 0..s :
        /\ u % _config.contactmap_update_interval = 0
        /\ u > s - _config.sampling_interval * _config.contactmap_output_window}

ContactsSavedAt(s) == <<"interphase", to_string(s)>> \in DOMAIN _store.contacts

SavedContacts(s) == _store.contacts[<<"interphase", to_string(s)>>]

InterphaseRunDone == driver = "interphase" /\ pc = "finished"

\* C23: once the interphase stage is done, a contact map was saved exactly at
\* the sampling steps whose frame number is a multiple of
\* contactmap_output_window, and the map saved at step s holds exactly the
\* updates made at the update steps in (s - sampling_interval *
\* contactmap_output_window, s], so that no update is in two saved maps.
C23_SavedEveryWindow ==
    InterphaseRunDone =>
        \A s \in 0.._config.steps :
            /\ ContactsSavedAt(s) <=> s \in WindowSteps
            /\ ContactsSavedAt(s) => {u.step : u \in SavedContacts(s)} = WindowUpdates(s)

\* The update steps of the window of s whose search found a pair: every
\* update but the one of step 0, when contactmap_distance is positive.
WindowContacts(s) ==
    {u \in WindowUpdates(s) : u > 0 /\ _config.contactmap_distance > 0}

\* What the run does keep: a map is saved only at those steps and only when
\* its window counted a contact, and it holds exactly the contacts of the
\* updates of its window.
SavedWindowsExact ==
    InterphaseRunDone =>
        \A s \in 0.._config.steps :
            /\ ContactsSavedAt(s) <=> (s \in WindowSteps /\ WindowContacts(s) # {})
            /\ ContactsSavedAt(s) => {u.step : u \in SavedContacts(s)} = WindowContacts(s)

\* A step of the run at which a contact map was due and none was written.
WindowNotSaved ==
    /\ InterphaseRunDone
    /\ \E s \in WindowSteps : ~ContactsSavedAt(s)

(***************************************************************************)
(* The transitions on the structure of a prepared file: the designs are    *)
(* those init_pipeline::run defined, the positions read are those of the   *)
(* last frame of the previous stage, one point per particle of its design. *)
(* A point is kept by its coordinate on one axis, as a fraction; the       *)
(* particles of the structure read lie at distinct coordinates 2^i, so     *)
(* that a centroid tells which points went into it.                        *)
(***************************************************************************)
Point(x) == [num |-> x, den |-> 1]

\* md::point {}: the origin, what std::vector<md::point>(n) holds
DefaultPoint == [num |-> 0, den |-> 1, assigned |-> FALSE]

\* The structure a stage left for n particles.
FinalStructure(n) == [i \in 1..n |-> Point(Pow2(i - 1))]

\* spindle_axis and sister_separation of config.mitotic_phase, on the axis
SpindleConfigs == [spindle_axis : {-2, 2}, sister_separation : {1}]

\* count_particles: the sum of the chain lengths of a design
RECURSIVE count_particles(_)
count_particles(chains) ==
    IF chains = <<>> THEN 0
    ELSE (Head(chains).end - Head(chains).start) + count_particles(Tail(chains))

\* view_slice(vec, start, end): the elements [start, end) of vec
view_slice(vec, start, end) == SubSeq(vec, start + 1, end)

\* Whether [start, end) lies inside a vector of n elements.
SliceInside(n, start, end) == 0 <= start /\ start <= end /\ end <= n

RECURSIVE SumOfPoints(_)
SumOfPoints(points) ==
    IF points = <<>> THEN 0 ELSE Head(points).num + SumOfPoints(Tail(points))

\* The sum of the coordinates is not divided by their number.
compute_centroid_Sum(points) == [num |-> SumOfPoints(points), den |-> 1]

\* compute_centroid: the sum of the coordinates divided by their number
compute_centroid(points) == [num |-> SumOfPoints(points), den |-> Len(points)]

\* point + vector
Displaced(point, vector) == [num |-> point.num + vector * point.den, den |-> point.den]

\* md::vector::normalize on the axis: the direction of a nonzero vector
normalize(v) == IF v < 0 THEN -1 ELSE 1

Minimum(a, b) == IF a < b THEN a ELSE b

\* std::min(source_start + coarse_graining, source_start + source_length)
source_end(source_start, coarse_graining, source_chain) ==
    Minimum(source_start + coarse_graining,
            source_start + (source_chain.end - source_chain.start))

\* The assignments of transition_prometaphase in program order: for every
\* chromosome and every offset of its target chromatid, the target bead and
\* then the sister bead; from is the window of the source the centroid was
\* taken of.
RECURSIVE CoarseGrainFrom(_, _, _, _, _, _)
CoarseGrainFrom(inter, prometa, cfg, positions, chrom_index, offset) ==
    IF chrom_index >= Len(inter.chains) THEN <<>>
    ELSE LET source_chain == inter.chains[chrom_index + 1]
             pair == prometa.sister_chromatids[chrom_index + 1]
             target_chain == prometa.chains[pair[1] + 1]
             sister_chain == prometa.chains[pair[2] + 1]
             coarse_length == target_chain.end - target_chain.start
         IN  IF offset >= coarse_length
             THEN CoarseGrainFrom(inter, prometa, cfg, positions, chrom_index + 1, 0)
             ELSE LET source_start == source_chain.start + cfg.coarse_graining * offset
                      window_end == source_end(source_start, cfg.coarse_graining, source_chain)
                      centroid == compute_centroid(view_slice(positions, source_start, window_end))
                      sister_displacement ==
                          -cfg.sister_separation * normalize(cfg.spindle_axis)
                  IN  <<[index |-> target_chain.start + offset, point |-> centroid,
                         from |-> <<source_start, window_end>>],
                        [index |-> sister_chain.start + offset,
                         point |-> Displaced(centroid, sister_displacement),
                         from |-> <<source_start, window_end>>]>>
                      \o CoarseGrainFrom(inter, prometa, cfg, positions, chrom_index, offset + 1)

\* vec[index] = point for each assignment in turn
RECURSIVE AssignAll(_, _)
AssignAll(vec, assignments) ==
    IF assignments = <<>> THEN vec
    ELSE LET a == Head(assignments)
         IN  AssignAll([vec EXCEPT ![a.index + 1] =
                           [num |-> a.point.num, den |-> a.point.den, assigned |-> TRUE]],
                       Tail(assignments))

\* Every element read and every element written exists.
AccessesInside(assignments, read_size, write_size) ==
    \A k \in 1..Len(assignments) :
        /\ SliceInside(read_size, assignments[k].from[1], assignments[k].from[2])
        /\ assignments[k].index < write_size

\* The designs are in the file: a transition may be run on it.
StructureReady == ppc = "defined" /\ structure_pc = "idle"

\* The vector is filled and saved; an access outside a vector is undefined:
\* the program is killed or saves a vector some of whose cells it did not set.
FillAndSave(n, assignments, read_size) ==
    /\ structure_writes' = [k \in 1..Len(assignments) |-> assignments[k].index]
    /\ IF AccessesInside(assignments, read_size, n)
       THEN /\ next_structure' = AssignAll([i \in 1..n |-> DefaultPoint], assignments)
            /\ structure_pc' = "saved"
       ELSE /\ next_structure' = [i \in 1..n |-> DefaultPoint]
            /\ structure_pc' \in {"killed", "saved"}

\* transition_prometaphase on the structure: the last interphase frame is
\* coarse-grained into the target chromatids and their displaced sisters.
coarse_grain_structure ==
    /\ StructureReady
    /\ structure_mode' = "prometaphase"
    /\ \E mitotic \in SpindleConfigs :
           LET cfg == [coarse_graining |-> _prepare_config.coarse_graining,
                       sister_separation |-> mitotic.sister_separation,
                       spindle_axis |-> mitotic.spindle_axis]
               interphase_positions == FinalStructure(Len(_interphase.particles))
               assignments == CoarseGrainFrom(_interphase, _prometaphase, cfg,
                                              interphase_positions, 0, 0)
           IN  /\ structure_config' = cfg
               /\ prev_structure' = interphase_positions
               /\ FillAndSave(count_particles(_prometaphase.chains), assignments,
                              Len(interphase_positions))
    /\ UNCHANGED stRest

(***************************************************************************)
(* Properties of the coarse-graining.                                      *)
(***************************************************************************)
\* The cell of bead k (from 0) of chain c of the saved structure.
SavedBead(chain, k) == next_structure[chain.start + k + 1]

\* The centroid of the points of prev_structure at the indexes [from, to).
CentroidOf(from, to) ==
    [num |-> SumOfPoints(SubSeq(prev_structure, from + 1, to)), den |-> to - from]

CoarseGrained == structure_mode = "prometaphase" /\ structure_pc = "saved"

\* The window [from, to) of interphase beads of every target bead: chromosome
\* c, offset k.
CoarseWindows ==
    UNION {{[c |-> c, k |-> k,
             from |-> _interphase.chains[c].start + k * structure_config.coarse_graining,
             to |-> _interphase.chains[c].start + (k + 1) * structure_config.coarse_graining]
            : k \in 0..(_prometaphase.chains[_prometaphase.sister_chromatids[c][1] + 1].end
                        - _prometaphase.chains[_prometaphase.sister_chromatids[c][1] + 1].start - 1)}
           : c \in 1..Len(_interphase.chains)}

\* C24: for every chromosome c and every offset k below the length of its
\* target chromatid, the target bead k is the centroid of the coarse_graining
\* interphase beads [start_c + k*cg, start_c + (k+1)*cg), which lie inside
\* interphase chain c; the sister bead k is that centroid displaced by
\* -sister_separation along the normalized spindle axis; the windows of
\* different beads are disjoint.
C24_FixedWindows ==
    CoarseGrained =>
        \A c \in 1..Len(_interphase.chains) :
            LET source == _interphase.chains[c]
                target == _prometaphase.chains[_prometaphase.sister_chromatids[c][1] + 1]
                sister == _prometaphase.chains[_prometaphase.sister_chromatids[c][2] + 1]
                cg == structure_config.coarse_graining
                shift == -structure_config.sister_separation
                            * normalize(structure_config.spindle_axis)
            IN  \A k \in 0..(target.end - target.start - 1) :
                    LET from == source.start + k * cg
                        centroid == CentroidOf(from, from + cg)
                    IN  /\ source.start <= from /\ from + cg <= source.end
                        /\ SavedBead(target, k).assigned
                        /\ SavedBead(target, k).num = centroid.num
                        /\ SavedBead(target, k).den = cg
                        /\ SavedBead(sister, k).assigned
                        /\ SavedBead(sister, k).num = centroid.num + shift * cg
                        /\ SavedBead(sister, k).den = cg
                        /\ \A w \in CoarseWindows :
                               (w.c # c \/ w.k # k) => (w.to <= from \/ from + cg <= w.from)

\* Two chromosomes were coarse-grained by windows of two beads; the second
\* one has a bead left over at its end and a nucleolar particle follows it.
C24_Witness ==
    /\ CoarseGrained
    /\ structure_config.coarse_graining = 2
    /\ Len(_interphase.chains) = 2
    /\ _interphase.chains[2].end - _interphase.chains[2].start = 3
    /\ _prometaphase.chains[3].end - _prometaphase.chains[3].start = 1
    /\ Len(_interphase.particles) > _interphase.chains[2].end

(***************************************************************************)
(* transition_cycle on the structure.  The previous file holds the         *)
(* prometaphase design and the last prometaphase frame; the next file      *)
(* holds an anatelophase design of its own, prepared from the same chain   *)
(* definitions with a coarse_graining that may or may not be the one of    *)
(* the previous file.                                                      *)
(***************************************************************************)
\* next.load_anatelophase_design(): the anatelophase chains prepare defines
\* in the next file.
NextAnaphaseDesign(coarse_graining) ==
    DefineAnatelophaseFrom(_interphase, coarse_graining, 1, NothingDefined)

\* The sister chromatid is taken instead of the target one.
metaphase_chain_Sister(metaphase_design, chrom_index) ==
    metaphase_design.chains[metaphase_design.sister_chromatids[chrom_index + 1][2] + 1]

\* metaphase_design.chains[target_index] of the pair of chromosome chrom_index
metaphase_chain(metaphase_design, chrom_index) ==
    metaphase_design.chains[metaphase_design.sister_chromatids[chrom_index + 1][1] + 1]

\* The assignments of transition_cycle in program order.
RECURSIVE CycleFrom(_, _, _, _, _, _)
CycleFrom(metaphase_design, anaphase_design, displacement, positions, chrom_index, offset) ==
    IF chrom_index >= Len(anaphase_design.chains) THEN <<>>
    ELSE LET source == metaphase_chain(metaphase_design, chrom_index)
             anaphase_chain == anaphase_design.chains[chrom_index + 1]
             chain_length == source.end - source.start
         IN  IF offset >= chain_length
             THEN CycleFrom(metaphase_design, anaphase_design, displacement, positions,
                            chrom_index + 1, 0)
             ELSE <<[index |-> anaphase_chain.start + offset,
                     point |-> Displaced(positions[source.start + offset + 1], displacement),
                     from |-> <<source.start + offset, source.start + offset + 1>>]>>
                  \o CycleFrom(metaphase_design, anaphase_design, displacement, positions,
                               chrom_index, offset + 1)

copy_structure ==
    /\ StructureReady
    /\ structure_mode' = "cycle"
    /\ \E mitotic \in SpindleConfigs, next_graining \in 1..MaxCoarseGraining :
           LET anaphase_design == NextAnaphaseDesign(next_graining)
               metaphase_positions == FinalStructure(Len(_prometaphase.particles))
               displacement == -mitotic.spindle_axis
               assignments == CycleFrom(_prometaphase, anaphase_design, displacement,
                                        metaphase_positions, 0, 0)
           IN  /\ structure_config' = [spindle_axis |-> mitotic.spindle_axis,
                                       anaphase_chains |-> anaphase_design.chains]
               /\ prev_structure' = metaphase_positions
               /\ FillAndSave(count_particles(anaphase_design.chains), assignments,
                              Len(metaphase_positions))
    /\ UNCHANGED stRest

(***************************************************************************)
(* transition_interphase on the structure.  The file holds the             *)
(* anatelophase design and the last telophase frame.  cubic_spline is a    *)
(* library: the value of the curve fitted to a chain is kept by the knots  *)
(* the curve was fitted to and the parameter it was evaluated at.  No      *)
(* curve is fitted to a chain without points: what the program does then   *)
(* is left open.                                                           *)
(***************************************************************************)
\* (0.5 + double(i)) / double(n)
sample_parameter(i, n) == [num |-> 2 * i + 1, den |-> 2 * n]

\* ts and xs of resample_chain: the knots of the curve
Knots(chain) ==
    [j \in 1..Len(chain) |-> [t |-> sample_parameter(j - 1, Len(chain)), x |-> chain[j]]]

\* x_spline(t)
spline_value(knots, t) == [curve |-> knots, at |-> t, assigned |-> TRUE]

\* The assignments of the resample_chain calls in program order.
RECURSIVE ResampleFrom(_, _, _, _, _)
ResampleFrom(telophase_design, interphase_design, positions, chain_index, i) ==
    IF chain_index >= Len(telophase_design.chains) THEN <<>>
    ELSE LET source == telophase_design.chains[chain_index + 1]
             target == interphase_design.chains[chain_index + 1]
             chain == view_slice(positions, source.start, source.end)
             new_size == target.end - target.start
         IN  IF i >= new_size
             THEN ResampleFrom(telophase_design, interphase_design, positions,
                               chain_index + 1, 0)
             ELSE <<[index |-> target.start + i,
                     point |-> spline_value(Knots(chain), sample_parameter(i, new_size)),
                     from |-> <<source.start, source.end>>]>>
                  \o ResampleFrom(telophase_design, interphase_design, positions,
                                  chain_index, i + 1)

\* new_chain[i] = {...} for each assignment in turn
RECURSIVE FillChains(_, _)
FillChains(vec, assignments) ==
    IF assignments = <<>> THEN vec
    ELSE FillChains([vec EXCEPT ![Head(assignments).index + 1] = Head(assignments).point],
                    Tail(assignments))

\* interphase_positions[nuc] = interphase_positions[nor] for each bond in turn
RECURSIVE PlaceNucleolar(_, _)
PlaceNucleolar(vec, bonds) ==
    IF bonds = <<>> THEN vec
    ELSE PlaceNucleolar([vec EXCEPT ![Head(bonds)[2] + 1] = vec[Head(bonds)[1] + 1]],
                        Tail(bonds))

\* Every telophase chain has a point to fit a curve to.
CurvesFitted(telophase_design) ==
    \A c \in 1..Len(telophase_design.chains) :
        telophase_design.chains[c].end > telophase_design.chains[c].start

resample_structure ==
    /\ StructureReady
    /\ structure_mode' = "interphase"
    /\ LET telophase_positions == FinalStructure(count_particles(_anatelophase.chains))
           size == Len(_interphase.particles)
           assignments == ResampleFrom(_anatelophase, _interphase, telophase_positions, 0, 0)
           bonds == _interphase.nucleolar_bonds
           interphase_positions == [i \in 1..size |-> DefaultPoint]
       IN  /\ structure_config' = [chains |-> _anatelophase.chains]
           /\ prev_structure' = telophase_positions
           /\ structure_writes' = [k \in 1..Len(assignments) |-> assignments[k].index]
                                      \o [b \in 1..Len(bonds) |-> bonds[b][2]]
           /\ IF /\ CurvesFitted(_anatelophase)
                 /\ AccessesInside(assignments, Len(telophase_positions), size)
              THEN /\ next_structure' =
                          PlaceNucleolar(FillChains(interphase_positions, assignments), bonds)
                   /\ structure_pc' = "saved"
              ELSE /\ next_structure' = interphase_positions
                   /\ structure_pc' \in {"killed", "saved"}
    /\ UNCHANGED stRest

StructureNext ==
    \/ define_chains
    \/ define_nucleolar_particles
    \/ define_anatelophase_chains
    \/ define_prometaphase_chains
    \/ coarse_grain_structure

SpecStructure == PrepareProgramInit /\ [][StructureNext]_vars

\* prepare, then transition_cycle on the file and the next one
CycleNext ==
    \/ define_chains
    \/ define_nucleolar_particles
    \/ define_anatelophase_chains
    \/ define_prometaphase_chains
    \/ copy_structure

SpecCycle == PrepareProgramInit /\ [][CycleNext]_vars

\* prepare, then transition_interphase on the file
RefineNext ==
    \/ define_chains
    \/ define_nucleolar_particles
    \/ define_anatelophase_chains
    \/ define_prometaphase_chains
    \/ resample_structure

SpecRefine == PrepareProgramInit /\ [][RefineNext]_vars

(***************************************************************************)
(* Properties of the copy into the next trajectory.                        *)
(***************************************************************************)
Cycled == structure_mode = "cycle" /\ structure_pc # "idle"

\* The target chromatid of chromosome i (from 1) in the previous file.
TargetChromatid(i) == _prometaphase.chains[_prometaphase.sister_chromatids[i][1] + 1]

\* The number of assignments made to index i of the vector.
WritesTo(i) == Cardinality({k \in 1..Len(structure_writes) : structure_writes[k] = i})

\* Every particle of anaphase chain i of the next trajectory is assigned once,
\* bead k from bead k of target chromatid i displaced by -spindle_axis, and
\* nothing else is assigned.
CopiedOnce ==
    /\ structure_pc = "saved"
    /\ \A i \in 1..Len(structure_config.anaphase_chains) :
           LET chain == structure_config.anaphase_chains[i]
               target == TargetChromatid(i)
           IN  \A k \in 0..(chain.end - chain.start - 1) :
                   /\ WritesTo(chain.start + k) = 1
                   /\ SavedBead(chain, k).assigned
                   /\ SavedBead(chain, k).num
                          = prev_structure[target.start + k + 1].num - structure_config.spindle_axis
    /\ Len(structure_writes) = count_particles(structure_config.anaphase_chains)

\* The chains of the next file are as long as the target chromatids of the
\* previous one.
DesignsAgree ==
    \A i \in 1..Len(structure_config.anaphase_chains) :
        structure_config.anaphase_chains[i].end - structure_config.anaphase_chains[i].start
            = TargetChromatid(i).end - TargetChromatid(i).start

CopyPastChain ==
    /\ Cycled
    /\ \E i \in 1..Len(structure_config.anaphase_chains) :
           TargetChromatid(i).end - TargetChromatid(i).start
               > structure_config.anaphase_chains[i].end - structure_config.anaphase_chains[i].start

(***************************************************************************)
(* Properties of the nucleolar particles prepare defines.                  *)
(***************************************************************************)
\* The number of chain beads: the end of the last chain.
ChainBeads ==
    IF _interphase.chains = <<>> THEN 0
    ELSE _interphase.chains[Len(_interphase.chains)].end

\* The indexes of the beads whose tags name an active NOR.
ActiveNors ==
    UNION {{_interphase.chains[c].start + j - 1 :
                j \in {j \in 1..Len(_chains[c].beads) : check_tag(_chains[c].beads[j].tags, "anor")}}
           : c \in 1..Len(_chains)}

\* The bonds that start at bead i, and those that end at particle j.
BondsFrom(i) ==
    {b \in 1..Len(_interphase.nucleolar_bonds) : _interphase.nucleolar_bonds[b][1] = i}

BondsTo(j) ==
    {b \in 1..Len(_interphase.nucleolar_bonds) : _interphase.nucleolar_bonds[b][2] = j}

NucleolarDefined ==
    ppc \in {"define_anatelophase_chains", "define_prometaphase_chains", "defined", "killed"}

\* C26: once define_nucleolar_particles has run, every active NOR bead has
\* nucleolus_bead_count bonds and no other bead has any; the particles after
\* the chain beads, and only they, are nucleolar, nucleolus_bead_count for
\* each active NOR; each is the second element of exactly one bond and the
\* first element of every bond is a chain bead.
C26_NucleolarParticles ==
    NucleolarDefined =>
        /\ \A i \in 0..(ChainBeads - 1) :
               /\ _interphase.particles[i + 1] # "nucleolus"
               /\ Cardinality(BondsFrom(i)) =
                      IF i \in ActiveNors THEN _prepare_config.nucleolus_bead_count ELSE 0
        /\ Len(_interphase.particles)
               = ChainBeads + Cardinality(ActiveNors) * _prepare_config.nucleolus_bead_count
        /\ \A j \in ChainBeads..(Len(_interphase.particles) - 1) :
               /\ _interphase.particles[j + 1] = "nucleolus"
               /\ Cardinality(BondsTo(j)) = 1
        /\ \A b \in 1..Len(_interphase.nucleolar_bonds) :
               _interphase.nucleolar_bonds[b][1] < ChainBeads

\* Two active NOR beads, one followed by other beads, each got a nucleolar
\* particle after the chains.
C26_Witness ==
    /\ NucleolarDefined
    /\ _prepare_config.nucleolus_bead_count = 1
    /\ Cardinality(ActiveNors) = 2
    /\ \E i \in ActiveNors : i + 1 < ChainBeads /\ (i + 1) \notin ActiveNors
    /\ Len(_interphase.nucleolar_bonds) = 2

(***************************************************************************)
(* The frame index a run leaves.                                           *)
(***************************************************************************)
\* The sampling interval of a stage.
SamplingInterval(stage) ==
    IF stage = "relaxation" THEN _config.relaxation_sampling_interval
    ELSE _config.sampling_interval

\* 0, S, 2S, ... up to the step count of the stage
RECURSIVE SampledFrom(_, _, _)
SampledFrom(k, interval, steps) ==
    IF k > steps THEN <<>> ELSE <<k>> \o SampledFrom(k + interval, interval, steps)

SampledSteps(stage) ==
    SampledFrom(0, SamplingInterval(stage), StageSteps(driver, _config, stage))

RunCompleted == driver \in Drivers /\ pc = "finished"

\* C27: after run() the frame index of every stage of the driver lists the
\* steps sampled in that run, 0, S, 2S, ..., once each and in ascending
\* order, whatever it held before the run.
C27_FrameIndexOfRun ==
    RunCompleted =>
        \A i \in 1..Len(DriverStages(driver)) :
            load_steps(set_stage(_store, DriverStages(driver)[i]))
                = SampledSteps(DriverStages(driver)[i])

\* The same for the stages whose index the run clears, and for any stage
\* whose index was absent or empty before the run.
FrameIndexOfClearedStage ==
    RunCompleted =>
        \A i \in 1..Len(DriverStages(driver)) :
            LET stage == DriverStages(driver)[i]
            IN  (stage \in {"interphase", "prometaphase"}
                    \/ stage \notin DOMAIN input.steps
                    \/ input.steps[stage] = <<>>) =>
                load_steps(set_stage(_store, stage)) = SampledSteps(stage)

\* A run completed on a file whose index of a stage held frames of an earlier
\* run, which the index still lists before those of this run.
StaleFramesKept ==
    /\ RunCompleted
    /\ \E i \in 1..Len(DriverStages(driver)) :
           LET stage == DriverStages(driver)[i]
           IN  /\ stage \in DOMAIN input.steps
               /\ input.steps[stage] = StaleFrames
               /\ SubSeq(_store.steps[stage], 1, Len(StaleFrames)) = StaleFrames

(***************************************************************************)
(* Order of the writes of a sampled step.  passed holds the states the     *)
(* file went through in the last callback; a run interrupted inside that   *)
(* callback leaves the file in one of them, a run interrupted between two  *)
(* callbacks leaves it as _store.                                          *)
(***************************************************************************)
\* The frames a store lists, each with its stage
ListedFrames(st) ==
    UNION {{<<stage, st.steps[stage][i]>> : i \in 1..Len(st.steps[stage])} :
               stage \in DOMAIN st.steps}

\* The listed frames whose positions are not in the store
UnsavedFrames(st) == ListedFrames(st) \ DOMAIN st.positions

\* The step of the last callback, as the store names it
LastSampled == <<_store._stage, to_string(calls[_store._stage][Len(calls[_store._stage])])>>

\* The stages whose callbacks save the context with the positions
StagesWithContext == {"relaxation", "interphase"}

\* The last callback sampled its step.
SampledLast == driver \in Drivers /\ Len(passed) > 0

\* The last callback has returned and the integrator has not moved the
\* particles since.
CallbackReturned == pc = "integrate"

\* The file holds everything the last callback saved for its step.
StepSaved(st) ==
    /\ LastSampled \in DOMAIN st.positions
    /\ st.positions = _store.positions
    /\ st.context = _store.context
    /\ st.contacts = _store.contacts
    /\ _store._stage \in StagesWithContext => LastSampled \in DOMAIN st.context

ScheduleTime(scale) == IF scale = InitialContext.core_scale THEN 0 ELSE scale

\* The steps whose context the interphase stage has in the file
SavedContextSteps ==
    {stol(key[2]) : key \in {p \in DOMAIN _store.context : p[1] = "interphase"}}

SavedContext(s) == _store.context[<<"interphase", to_string(s)>>]

\* C29: the interphase context saved at a sampling step s has the time of s, and
\* its core_scale and bond_scale are the schedule evaluated at that time, not
\* at the time of an earlier step.
C29_SavedContextConsistent ==
    driver \in Drivers =>
        \A s \in SavedContextSteps :
            /\ SavedContext(s).time = s
            /\ ScheduleTime(SavedContext(s).core_scale) = s
            /\ ScheduleTime(SavedContext(s).bond_scale) = s

\* What the file has: the time of s, with the scales update_core_scale() left at
\* the end of the callback before, which are those of step s - 1 (of time 0 at
\* the first two steps).
SavedScalesOfPreviousStep ==
    driver \in Drivers =>
        \A s \in SavedContextSteps :
            /\ SavedContext(s).time = s
            /\ ScheduleTime(SavedContext(s).core_scale) = (IF s = 0 THEN 0 ELSE s - 1)
            /\ ScheduleTime(SavedContext(s).bond_scale) = (IF s = 0 THEN 0 ELSE s - 1)

\* A context saved at step 2 with the scales of step 1
EarlierScalesSaved ==
    /\ driver \in Drivers
    /\ 2 \in SavedContextSteps
    /\ SavedContext(2).time = 2
    /\ SavedContext(2).core_scale = 1

(***************************************************************************)
(* Properties of the refinement into the interphase structure.             *)
(***************************************************************************)
Refined == structure_mode = "interphase" /\ structure_pc # "idle"

\* The telophase chain c (from 1) the structure was read with.
TelophaseChain(c) == structure_config.chains[c]

\* The curve through the points of telophase chain c.
CurveOf(c) == Knots(SubSeq(prev_structure, TelophaseChain(c).start + 1, TelophaseChain(c).end))

\* Every bead of every interphase chain was written once, with the curve of its
\* own telophase chain at (k + 0.5)/n; every nucleolar particle was written
\* once, with the position of the bead it is bonded to; nothing was left as
\* constructed.
EveryParticlePlaced ==
    /\ structure_pc = "saved"
    /\ \A c \in 1..Len(_interphase.chains) :
           LET chain == _interphase.chains[c]
               n == chain.end - chain.start
           IN  \A k \in 0..(n - 1) :
                   /\ WritesTo(chain.start + k) = 1
                   /\ SavedBead(chain, k).assigned
                   /\ Len(CurveOf(c)) > 0
                   /\ SavedBead(chain, k).curve = CurveOf(c)
                   /\ SavedBead(chain, k).at.num * 2 * n = (2 * k + 1) * SavedBead(chain, k).at.den
    /\ \A b \in 1..Len(_interphase.nucleolar_bonds) :
           LET nor == _interphase.nucleolar_bonds[b][1]
               nuc == _interphase.nucleolar_bonds[b][2]
           IN  /\ WritesTo(nuc) = 1
               /\ next_structure[nuc + 1].assigned
               /\ next_structure[nuc + 1] = next_structure[nor + 1]
    /\ \A i \in 1..Len(next_structure) : next_structure[i].assigned
    /\ Len(next_structure) = Len(_interphase.particles)

\* C30: transition_interphase assigns a position to every interphase particle:
\* the beads of interphase chain i are the curve of telophase chain i sampled
\* at (k + 0.5)/n, every nucleolar particle is at the resampled position of
\* the NOR bead it is bonded to, and no particle is left at the default origin
\* or written from two chains.
C30_EveryParticleResampled == Refined => EveryParticlePlaced

\* The same when every telophase chain has a bead.
ResampledWhenFitted ==
    Refined /\ (\A c \in 1..Len(structure_config.chains) :
                    TelophaseChain(c).end > TelophaseChain(c).start)
        => EveryParticlePlaced

\* An interphase chain of one bead, whose telophase chain has none at a
\* coarse_graining of 2, was to be resampled.
EmptyChainResampled ==
    /\ Refined
    /\ \E c \in 1..Len(_interphase.chains) :
           /\ _interphase.chains[c].end > _interphase.chains[c].start
           /\ TelophaseChain(c).end = TelophaseChain(c).start

\* Two chains and a nucleolar particle were placed, the first chain from a
\* telophase chain with fewer beads.
RefinedTwoChains ==
    /\ Refined
    /\ EveryParticlePlaced
    /\ Len(_interphase.chains) = 2
    /\ Len(_interphase.nucleolar_bonds) > 0
    /\ TelophaseChain(1).end - TelophaseChain(1).start
           < _interphase.chains[1].end - _interphase.chains[1].start

====
